---------------------------- MODULE Spec2Model ----------------------------
(***************************************************************************)
(* Verification model of the parametric shelf geometry engines             *)
(* (ShelfVisualizer/geometry.ts, CornerShelfVisualizer/geometry.ts).       *)
(*                                                                         *)
(* JavaScript numbers are modelled as exact rationals whose denominator is *)
(* a product of powers of 2, 3, 5 and 7, with an arbitrary-precision       *)
(* numerator: floating-point rounding is not modelled.  Math.sin and       *)
(* Math.cos are a four-decimal table at 1/80 turn, linear in between;      *)
(* 1/Math.sqrt(2) and cos(30 deg) are four-decimal constants.              *)
(***************************************************************************)
EXTENDS Integers, Sequences, FiniteSets, TLC

(***************************************************************************)
(* Arbitrary-precision naturals: little-endian limbs, no leading zero.     *)
(***************************************************************************)
Base == 100 * 100

RECURSIVE MagTrim(_)
MagTrim(a) ==
  IF a = <<>> THEN a
  ELSE IF a[Len(a)] = 0 THEN MagTrim(SubSeq(a, 1, Len(a) - 1)) ELSE a

RECURSIVE MagFromNat(_)
MagFromNat(i) ==
  IF i = 0 THEN <<>> ELSE <<i % Base>> \o MagFromNat(i \div Base)

RECURSIVE MagAddC(_, _, _)
MagAddC(a, b, c) ==
  IF a = <<>> /\ b = <<>> THEN (IF c = 0 THEN <<>> ELSE <<c>>)
  ELSE LET x == (IF a = <<>> THEN 0 ELSE a[1]) + (IF b = <<>> THEN 0 ELSE b[1]) + c
       IN  <<x % Base>> \o MagAddC(IF a = <<>> THEN a ELSE Tail(a),
                                   IF b = <<>> THEN b ELSE Tail(b),
                                   x \div Base)

MagAdd(a, b) == MagAddC(a, b, 0)

\* a - b for a >= b, before trimming
RECURSIVE MagSubB(_, _, _)
MagSubB(a, b, c) ==
  IF a = <<>> THEN <<>>
  ELSE LET x == a[1] - (IF b = <<>> THEN 0 ELSE b[1]) - c
       IN  <<(x + Base) % Base>> \o MagSubB(Tail(a),
                                            IF b = <<>> THEN b ELSE Tail(b),
                                            IF x < 0 THEN 1 ELSE 0)

MagSub(a, b) == MagTrim(MagSubB(a, b, 0))

\* -1, 0, 1 as a is below, equal to, above b (same length), from the top limb
RECURSIVE MagCmpAt(_, _, _)
MagCmpAt(a, b, k) ==
  IF k = 0 THEN 0
  ELSE IF a[k] < b[k] THEN -1
  ELSE IF a[k] > b[k] THEN 1
  ELSE MagCmpAt(a, b, k - 1)

MagCmp(a, b) ==
  IF Len(a) < Len(b) THEN -1
  ELSE IF Len(a) > Len(b) THEN 1
  ELSE MagCmpAt(a, b, Len(a))

\* a * s + c for a single limb s
RECURSIVE MagMulSmallC(_, _, _)
MagMulSmallC(a, s, c) ==
  IF a = <<>> THEN (IF c = 0 THEN <<>> ELSE <<c>>)
  ELSE LET x == a[1] * s + c
       IN  <<x % Base>> \o MagMulSmallC(Tail(a), s, x \div Base)

MagMulSmall(a, s) == IF s = 0 THEN <<>> ELSE MagMulSmallC(a, s, 0)

MagShift(a) == IF a = <<>> THEN a ELSE <<0>> \o a

RECURSIVE MagMul(_, _)
MagMul(a, b) ==
  IF a = <<>> \/ b = <<>> THEN <<>>
  ELSE MagAdd(MagMulSmall(a, b[1]), MagShift(MagMul(a, Tail(b))))

RECURSIVE Pow(_, _)
Pow(p, k) == IF k = 0 THEN 1 ELSE p * Pow(p, k - 1)

\* the largest k with p^k below Base, for p in Primes
ChunkExp(p) == IF p = 2 THEN 13 ELSE IF p = 3 THEN 8 ELSE IF p = 5 THEN 5 ELSE 4

\* a * p^k for a small prime p
RECURSIVE MagMulPow(_, _, _)
MagMulPow(a, p, k) ==
  IF k = 0 \/ a = <<>> THEN a
  ELSE LET c == IF k < ChunkExp(p) THEN k ELSE ChunkExp(p)
       IN  MagMulPow(MagMulSmall(a, Pow(p, c)), p, k - c)

(***************************************************************************)
(* Signed integers.                                                        *)
(***************************************************************************)
ZMk(neg, mag) == CHOOSE r \in { [neg |-> neg /\ m # <<>>, mag |-> m] : m \in {mag} } : TRUE

ZFromInt(i) == IF i < 0 THEN ZMk(TRUE, MagFromNat(-i)) ELSE ZMk(FALSE, MagFromNat(i))

ZNeg(a) == ZMk(~a.neg, a.mag)

ZAdd(a, b) ==
  IF a.neg = b.neg THEN ZMk(a.neg, MagAdd(a.mag, b.mag))
  ELSE IF MagCmp(a.mag, b.mag) >= 0 THEN ZMk(a.neg, MagSub(a.mag, b.mag))
  ELSE ZMk(b.neg, MagSub(b.mag, a.mag))

ZMul(a, b) == ZMk(a.neg # b.neg, MagMul(a.mag, b.mag))

ZSign(a) == IF a.mag = <<>> THEN 0 ELSE IF a.neg THEN -1 ELSE 1

(***************************************************************************)
(* Numbers: n / (2^e[1] * 3^e[2] * 5^e[3] * 7^e[4]).  As in the source     *)
(* language, the operands of an operation are evaluated once, before it    *)
(* is applied.                                                             *)
(***************************************************************************)
Primes == <<2, 3, 5, 7>>

Max(a, b) == IF a >= b THEN a ELSE b

Min(a, b) == IF a <= b THEN a ELSE b

NoExp == <<0, 0, 0, 0>>

ExpMax(e, f) == <<Max(e[1], f[1]), Max(e[2], f[2]), Max(e[3], f[3]), Max(e[4], f[4])>>

ExpMin(e, f) == <<Min(e[1], f[1]), Min(e[2], f[2]), Min(e[3], f[3]), Min(e[4], f[4])>>

ExpAdd(e, f) == <<e[1] + f[1], e[2] + f[2], e[3] + f[3], e[4] + f[4]>>

ExpSub(e, f) == <<e[1] - f[1], e[2] - f[2], e[3] - f[3], e[4] - f[4]>>

NMk(n, e) == [n |-> n, e |-> e]

Nm(i) == NMk(ZFromInt(i), NoExp)

\* m * 2^d[1] * 3^d[2] * 5^d[3] * 7^d[4], from the prime of index idx on
RECURSIVE MagScale(_, _, _)
MagScale(m, d, idx) ==
  IF idx > 4 THEN m ELSE MagScale(MagMulPow(m, Primes[idx], d[idx]), d, idx + 1)

\* the numerator of a over the denominator with exponents e (e >= a.e)
NScaleTo(a, e) == ZMk(a.n.neg, MagScale(a.n.mag, ExpSub(e, a.e), 1))

NAdd(a, b) ==
  CHOOSE r \in
    { IF x.e = y.e THEN NMk(ZAdd(x.n, y.n), x.e)
      ELSE CHOOSE q \in { NMk(ZAdd(xn, yn), e) :
                            <<xn, yn, e>> \in { <<NScaleTo(x, f), NScaleTo(y, f), f>> :
                                                f \in {ExpMax(x.e, y.e)} } } : TRUE :
      x \in {a}, y \in {b} } : TRUE

NNeg(a) == CHOOSE r \in { NMk(ZNeg(x.n), x.e) : x \in {a} } : TRUE

NSub(a, b) == NAdd(a, NNeg(b))

NMul(a, b) == CHOOSE r \in { NMk(ZMul(x.n, y.n), ExpAdd(x.e, y.e)) : x \in {a}, y \in {b} } : TRUE

NSign(a) == CHOOSE r \in { ZSign(x.n) : x \in {a} } : TRUE

\* -1, 0, 1 as a is below, equal to, above b
NCmp(a, b) == NSign(NSub(a, b))

NLe(a, b) == NCmp(a, b) <= 0

NLt(a, b) == NCmp(a, b) < 0

NEq(a, b) == NCmp(a, b) = 0

NMax(a, b) == CHOOSE r \in { IF NLe(y, x) THEN x ELSE y : x \in {a}, y \in {b} } : TRUE

NMin(a, b) == CHOOSE r \in { IF NLe(x, y) THEN x ELSE y : x \in {a}, y \in {b} } : TRUE

NAbs(a) == CHOOSE r \in { IF NSign(x) < 0 THEN NNeg(x) ELSE x : x \in {a} } : TRUE

\* how often the prime p divides m > 0
RECURSIVE Mult(_, _)
Mult(m, p) == IF m % p = 0 THEN 1 + Mult(m \div p, p) ELSE 0

Smooth(m) ==
  m > 0 /\ m = Pow(2, Mult(m, 2)) * Pow(3, Mult(m, 3)) * Pow(5, Mult(m, 5)) * Pow(7, Mult(m, 7))

\* a / m for an integer m # 0 whose prime factors are among Primes
NDivInt(a, m) ==
  CHOOSE r \in
    { NMk(IF k < 0 THEN ZNeg(x.n) ELSE x.n,
          ExpAdd(x.e, <<Mult(Max(k, -k), 2), Mult(Max(k, -k), 3),
                        Mult(Max(k, -k), 5), Mult(Max(k, -k), 7)>>)) :
      x \in {a}, k \in {m} } : TRUE

NFrac(i, m) == NDivInt(Nm(i), m)

\* the value of a magnitude below Base^2
MagToNat(a) ==
  IF a = <<>> THEN 0 ELSE IF Len(a) = 1 THEN a[1] ELSE a[1] + Base * a[2]

\* a / b for b # 0 with a smooth numerator below Base^2
NDiv(a, b) ==
  CHOOSE r \in
    { NMk(ZMk(q.n.neg, MagScale(q.n.mag, ExpSub(y.e, c), 1)), ExpSub(q.e, c)) :
      <<q, y, c>> \in
        { <<w, v, ExpMin(v.e, w.e)>> :
            <<w, v>> \in { <<NDivInt(a, IF v.n.neg THEN -MagToNat(v.n.mag)
                                         ELSE MagToNat(v.n.mag)), v>> : v \in {b} } } } : TRUE


(***************************************************************************)
(* Math.sin / Math.cos.                                                    *)
(***************************************************************************)
TrigScale == 100 * 100

\* round(10^4 * sin(2 pi j / 80)) for the first quarter turn, j = 0..20
SinQuarter ==
  <<0, 785, 1564, 2334, 3090, 3827, 4540, 5225, 5878, 6494, 7071,
    7604, 8090, 8526, 8910, 9239, 9511, 9724, 9877, 9969, 10000>>

SinStep(j) ==
  IF j <= 20 THEN SinQuarter[j + 1]
  ELSE IF j <= 40 THEN SinQuarter[41 - j]
  ELSE IF j <= 60 THEN -SinQuarter[j - 39]
  ELSE -SinQuarter[81 - j]

\* the largest integer in lo..hi that is at most q
RECURSIVE FloorIn(_, _, _)
FloorIn(q, lo, hi) ==
  IF lo >= hi THEN lo
  ELSE LET mid == (lo + hi + 1) \div 2
       IN  IF NLe(Nm(mid), q) THEN FloorIn(q, mid, hi) ELSE FloorIn(q, lo, mid - 1)

\* Math.sin(p * Math.PI * 2) for 0 <= p <= 1
Sin2Pi(p) ==
  CHOOSE r \in
    { IF NSign(NSub(q, Nm(j))) = 0 \/ j = 80 THEN NFrac(SinStep(j), TrigScale)
      ELSE NAdd(NFrac(SinStep(j), TrigScale),
                NMul(NSub(q, Nm(j)), NFrac(SinStep(j + 1) - SinStep(j), TrigScale))) :
      <<q, j>> \in { <<v, FloorIn(v, 0, 80)>> : v \in {NMul(p, Nm(80))} } } : TRUE

\* Math.cos(u * Math.PI) for 0 <= u <= 1
CosPi(u) == Sin2Pi(NAdd(NDivInt(u, 2), NFrac(1, 4)))

(***************************************************************************)
(* Corner engine: CornerShelfVisualizer/geometry.ts                        *)
(***************************************************************************)
DIAG == NFrac(7071, TrigScale)

catmullRom(p0, p1, p2, p3, t) ==
  LET t2 == NMul(t, t)
      t3 == NMul(t2, t)
  IN  NMul(NFrac(1, 2),
        NAdd(NAdd(NAdd(
          NMul(Nm(2), p1),
          NMul(NAdd(NNeg(p0), p2), t)),
          NMul(NSub(NAdd(NSub(NMul(Nm(2), p0), NMul(Nm(5), p1)), NMul(Nm(4), p2)), p3), t2)),
          NMul(NAdd(NSub(NAdd(NNeg(p0), NMul(Nm(3), p1)), NMul(Nm(3), p2)), p3), t3)))

\* the arguments of a call are evaluated once, before the call
catmullRomAt(p0, p1, p2, p3, t) ==
  CHOOSE r \in { catmullRom(a, b, c, d, lt) :
                   a \in {p0}, b \in {p1}, c \in {p2}, d \in {p3}, lt \in {t} } : TRUE

interpolate5Smooth(tIn, v0, v1, v2, v3, v4) ==
  LET t1 == NFrac(1, 6)
      t2 == NFrac(1, 2)
      t3 == NFrac(5, 6)
  IN  CHOOSE r \in
        { IF NLe(t, t1)
            THEN catmullRomAt(NAdd(v0, NSub(v0, v1)), v0, v1, v2, NDiv(t, t1))
          ELSE IF NLe(t, t2)
            THEN catmullRomAt(v0, v1, v2, v3, NDiv(NSub(t, t1), NSub(t2, t1)))
          ELSE IF NLe(t, t3)
            THEN catmullRomAt(v1, v2, v3, v4, NDiv(NSub(t, t2), NSub(t3, t2)))
          ELSE catmullRomAt(v2, v3, v4, NAdd(v4, NSub(v4, v3)),
                            NDiv(NSub(t, t3), NSub(Nm(1), t3))) :
          t \in {NMax(Nm(0), NMin(Nm(1), tIn))} } : TRUE

getCurveBasePositions(params) ==
  << [x |-> params.width, y |-> Nm(0)],
     [x |-> NSub(params.width, params.depth), y |-> params.depth],
     [x |-> params.depth, y |-> params.depth],
     [x |-> params.depth, y |-> NSub(params.length, params.depth)],
     [x |-> Nm(0), y |-> params.length] >>

\* depth * 2/3
TwoThirds(depth) == NDivInt(NMul(depth, Nm(2)), 3)

cornerBaseXFullDepth(t, params) ==
  CHOOSE r \in { interpolate5Smooth(t, params.width, v1, params.depth, params.depth, Nm(0)) :
                   v1 \in {NSub(params.width, params.depth)} } : TRUE

cornerBaseX(t, params) ==
  CHOOSE r \in { interpolate5Smooth(t, params.width, v1, params.depth, params.depth, Nm(0)) :
                   v1 \in {NSub(params.width, TwoThirds(params.depth))} } : TRUE

cornerBaseY(t, params) ==
  CHOOSE r \in { interpolate5Smooth(t, Nm(0), params.depth, params.depth, v3, params.length) :
                   v3 \in {NSub(params.length, TwoThirds(params.depth))} } : TRUE

cornerAmpMultiplierWavyEnds(t) == interpolate5Smooth(t, Nm(1), Nm(1), Nm(-1), Nm(1), Nm(1))

cornerAmpMultiplier(t) == interpolate5Smooth(t, Nm(0), Nm(1), Nm(-1), Nm(1), Nm(0))

getCornerFrontSurfaceCosine(t, z, params) ==
  CHOOSE pos \in
    { [x |-> NAdd(baseX, NMul(offset, DIAG)), y |-> NAdd(baseY, NMul(offset, DIAG))] :
        baseX \in {cornerBaseX(t, params)},
        baseY \in {cornerBaseY(t, params)},
        offset \in { NMul(NMul(params.amplitude, cosineValue), ampMultiplier) :
                       cosineValue \in {CosPi(NDiv(z, params.height))},
                       ampMultiplier \in {cornerAmpMultiplier(t)} } } : TRUE

getCornerFrontSurfaceAlongX(t, z, params) ==
  CHOOSE pos \in
    { [x |-> NAdd(baseX, offset), y |-> baseY] :
        baseX \in {cornerBaseX(t, params)},
        baseY \in {cornerBaseY(t, params)},
        offset \in { NMul(NMul(params.amplitude, sineValue), ampMultiplier) :
                       sineValue \in {Sin2Pi(NDiv(z, params.height))},
                       ampMultiplier \in {cornerAmpMultiplier(t)} } } : TRUE

getCornerFrontSurface(t, z, params) ==
  CHOOSE pos \in
    { [x |-> NAdd(baseX, NMul(offset, DIAG)), y |-> NAdd(baseY, NMul(offset, DIAG))] :
        baseX \in {cornerBaseX(t, params)},
        baseY \in {cornerBaseY(t, params)},
        offset \in { NMul(NMul(params.amplitude, sineValue), ampMultiplier) :
                       sineValue \in {Sin2Pi(NDiv(z, params.height))},
                       ampMultiplier \in {cornerAmpMultiplier(t)} } } : TRUE

getBackPointOnXWall(k, width, length) ==
  IF NLe(k, width) THEN [x |-> k, y |-> Nm(0)] ELSE [x |-> width, y |-> Nm(0)]

\* the wall intersection of the line x - y = k, clamped to the wall ends
getBackPointFor45Slice(k, width, length) ==
  IF NLe(Nm(0), k)
    THEN IF NLe(k, width) THEN [x |-> k, y |-> Nm(0)] ELSE [x |-> width, y |-> Nm(0)]
    ELSE LET yIntercept == NNeg(k)
         IN  IF NLe(yIntercept, length) THEN [x |-> Nm(0), y |-> yIntercept]
             ELSE [x |-> Nm(0), y |-> length]

BisectIterations == 20

CurveSegments == 40

\* point i (0-based) of generateCornerVerticalSineCurve
cornerCurvePoint(baseX, baseY, dirX, dirY, height, amplitude, inverted, i) ==
  LET t         == NFrac(i, CurveSegments)
      sineValue == Sin2Pi(t)
      offset    == IF inverted THEN NMul(NNeg(amplitude), sineValue)
                   ELSE NMul(amplitude, sineValue)
  IN  [x |-> NAdd(baseX, NMul(offset, dirX)),
       y |-> NAdd(baseY, NMul(offset, dirY)),
       z |-> NMul(t, height)]

generateCornerVerticalSineCurve(baseX, baseY, dirX, dirY, height, amplitude, inverted) ==
  [n \in 1..(CurveSegments + 1) |->
     cornerCurvePoint(baseX, baseY, dirX, dirY, height, amplitude, inverted, n - 1)]

\* curveData of generateCornerShelfGeometry: curve4, curve3, curve2, curve1, curve0
cornerCurveData(params) ==
  << [baseX |-> params.width, baseY |-> Nm(0), dirX |-> Nm(0), dirY |-> Nm(1),
      amp |-> Nm(0), inv |-> FALSE],
     [baseX |-> NSub(params.width, TwoThirds(params.depth)), baseY |-> params.depth,
      dirX |-> DIAG, dirY |-> DIAG, amp |-> params.amplitude, inv |-> FALSE],
     [baseX |-> params.depth, baseY |-> params.depth,
      dirX |-> DIAG, dirY |-> DIAG, amp |-> params.amplitude, inv |-> TRUE],
     [baseX |-> params.depth, baseY |-> NSub(params.length, TwoThirds(params.depth)),
      dirX |-> DIAG, dirY |-> DIAG, amp |-> params.amplitude, inv |-> FALSE],
     [baseX |-> Nm(0), baseY |-> params.length, dirX |-> Nm(1), dirY |-> Nm(0),
      amp |-> Nm(0), inv |-> FALSE] >>

cornerCurves(params) ==
  [c \in 1..5 |->
     LET d == cornerCurveData(params)[c]
     IN  generateCornerVerticalSineCurve(d.baseX, d.baseY, d.dirX, d.dirY,
                                         params.height, d.amp, d.inv)]

sliceFractionFromZero(count, i) == IF count > 1 THEN NFrac(i, count - 1) ELSE Nm(0)

\* tZ / tCol / t of the slice loops: i / (count - 1), or 0.5 for a single piece
sliceFraction(count, i) == IF count > 1 THEN NFrac(i, count - 1) ELSE NFrac(1, 2)

cornerShelfZToTop(params, i) ==
  NAdd(params.shelfOffset,
       NMul(sliceFraction(params.shelfCount, i), NSub(params.height, params.shelfOffset)))

\* z of corner shelf i
cornerShelfZ(params, i) ==
  LET shelfStartZ == params.shelfOffset
      shelfEndZ   == NSub(params.height, params.shelfOffset)
  IN  NAdd(shelfStartZ, NMul(sliceFraction(params.shelfCount, i), NSub(shelfEndZ, shelfStartZ)))

CornerShelfSegments == 80

BackSegments == 20

cornerBackEdgeX(params, z) ==
  [n \in 1..(BackSegments + 1) |->
     [x |-> NMul(params.width, NSub(Nm(1), NFrac(n - 1, BackSegments))), y |-> Nm(0), z |-> z]]

cornerBackEdgeY(params, z) ==
  [n \in 1..(BackSegments + 1) |->
     [x |-> Nm(0), y |-> NMul(params.length, NFrac(n - 1, BackSegments)), z |-> z]]

cornerColumnKFromMin(params, range, i) ==
  NAdd(range.kMin, NMul(sliceFraction(params.columnCount, i), NSub(range.kMax, range.kMin)))

\* k of corner column i
cornerColumnK(params, range, i) ==
  NAdd(range.kMax, NMul(sliceFraction(params.columnCount, i), NSub(range.kMin, range.kMax)))

ColumnSegments == 40

\* z of height step j of a column
columnStepZ(params, j) == NMul(NFrac(j, ColumnSegments), params.height)

bisectNarrowReversed(b, tMid, diff, k) ==
  IF NLt(diff, k)
    THEN [iter |-> b.iter + 1, tLow |-> tMid, tHigh |-> b.tHigh, tMid |-> tMid]
    ELSE [iter |-> b.iter + 1, tLow |-> b.tLow, tHigh |-> tMid, tMid |-> tMid]

\* the binary search of generateCornerShelfGeometry: the half kept after comparing
\* diff = x - y at tMid with the target k
bisectNarrow(b, tMid, diff, k) ==
  IF NLt(k, diff)
    THEN [iter |-> b.iter + 1, tLow |-> tMid, tHigh |-> b.tHigh, tMid |-> tMid]
    ELSE [iter |-> b.iter + 1, tLow |-> b.tLow, tHigh |-> tMid, tMid |-> tMid]

\* the binary search before its first iteration
bisectStart == [iter |-> 0, tLow |-> Nm(0), tHigh |-> Nm(1), tMid |-> NFrac(1, 2)]

(***************************************************************************)
(* Flat-wall engine: ShelfVisualizer/geometry.ts                           *)
(***************************************************************************)
cosineInterpolate(a, b, t) ==
  CHOOSE r \in { NAdd(NMul(a, NSub(Nm(1), t2)), NMul(b, t2)) :
                   t2 \in { NDivInt(NSub(Nm(1), c), 2) : c \in {CosPi(t)} } } : TRUE

\* the arguments of a call are evaluated once, before the call
cosineInterpolateAt(a, b, t) ==
  CHOOSE r \in { cosineInterpolate(a, b, lt) : lt \in {t} } : TRUE

interpolateY5(x, width, y0, y1, y2, y3, y4) ==
  CHOOSE r \in
    { IF NLe(xNorm, NFrac(1, 6))
        THEN cosineInterpolateAt(y0, y1, NDiv(xNorm, NFrac(1, 6)))
      ELSE IF NLe(xNorm, NFrac(1, 2))
        THEN cosineInterpolateAt(y1, y2,
               NDiv(NSub(xNorm, NFrac(1, 6)), NSub(NFrac(1, 2), NFrac(1, 6))))
      ELSE IF NLe(xNorm, NFrac(5, 6))
        THEN cosineInterpolateAt(y2, y3,
               NDiv(NSub(xNorm, NFrac(1, 2)), NSub(NFrac(5, 6), NFrac(1, 2))))
      ELSE cosineInterpolateAt(y3, y4,
               NDiv(NSub(xNorm, NFrac(5, 6)), NSub(Nm(1), NFrac(5, 6)))) :
      xNorm \in {NDiv(x, width)} } : TRUE

getFrontSurfaceY(x, z, width, height, depth, amplitude) ==
  CHOOSE r \in
    { interpolateY5(x, width, depth, y1, y2, y1, depth) :
        <<y1, y2>> \in { <<NAdd(depth, NMul(amplitude, sineValue)),
                           NSub(depth, NMul(amplitude, sineValue))>> :
                         sineValue \in {Sin2Pi(NDiv(z, height))} } } : TRUE

generateVerticalSineCurve(x, baseY, height, amplitude, inverted) ==
  [n \in 1..(CurveSegments + 1) |->
     CHOOSE p \in
       { [x |-> x,
          y |-> NAdd(baseY, IF inverted THEN NMul(NNeg(amplitude), sineValue)
                            ELSE NMul(amplitude, sineValue)),
          z |-> NMul(t, height)] :
         <<t, sineValue>> \in { <<v, Sin2Pi(v)>> : v \in {NFrac(n - 1, CurveSegments)} } } : TRUE]

\* curve0 .. curve4 of generateShelfGeometry
flatCurves(params) ==
  << generateVerticalSineCurve(Nm(0), params.depth, params.height, Nm(0), FALSE),
     generateVerticalSineCurve(NDivInt(params.width, 6), params.depth, params.height,
                               params.amplitude, FALSE),
     generateVerticalSineCurve(NDivInt(params.width, 2), params.depth, params.height,
                               params.amplitude, TRUE),
     generateVerticalSineCurve(NDivInt(NMul(params.width, Nm(5)), 6), params.depth,
                               params.height, params.amplitude, FALSE),
     generateVerticalSineCurve(params.width, params.depth, params.height, Nm(0), FALSE) >>

\* z of flat-wall shelf i
flatShelfZ(params, i) ==
  LET shelfStartZ == params.offset
      shelfEndZ   == NSub(params.height, params.offset)
  IN  NAdd(shelfStartZ, NMul(sliceFraction(params.shelfCount, i), NSub(shelfEndZ, shelfStartZ)))

\* x of flat-wall column i
flatColumnX(params, i) ==
  LET colStartX == params.offset
      colEndX   == NSub(params.width, params.offset)
  IN  NAdd(colStartX, NMul(sliceFraction(params.columnCount, i), NSub(colEndX, colStartX)))

FlatEdgeSegments == 40

(***************************************************************************)
(* Projection: the same in both geometry.ts files.  An angle is a whole    *)
(* number of 1/80 turns, so that its sine and cosine are table entries.    *)
(***************************************************************************)
COS_ISO == NFrac(8660, TrigScale)

SIN_ISO == NFrac(1, 2)

\* Math.sin(angle), Math.cos(angle)
sinOfAngle(angle) == NFrac(SinStep(angle % 80), TrigScale)

cosOfAngle(angle) == NFrac(SinStep((angle + 20) % 80), TrigScale)

isometricProject(p) ==
  [x |-> NMul(NSub(p.x, p.y), COS_ISO),
   y |-> NAdd(NNeg(p.z), NMul(NMul(NAdd(p.x, p.y), SIN_ISO), NFrac(1, 2)))]

rotateAndProjectAboutOrigin(p, angle, centerX, centerY) ==
  isometricProject(
    [x |-> NAdd(NSub(NMul(p.x, cosOfAngle(angle)), NMul(p.y, sinOfAngle(angle))), centerX),
     y |-> NAdd(NAdd(NMul(p.x, sinOfAngle(angle)), NMul(p.y, cosOfAngle(angle))), centerY),
     z |-> p.z])

rotateAndProject(p, angle, centerX, centerY) ==
  CHOOSE r \in
    { isometricProject([x |-> NAdd(NSub(NMul(x, cosA), NMul(y, sinA)), centerX),
                        y |-> NAdd(NAdd(NMul(x, sinA), NMul(y, cosA)), centerY),
                        z |-> p.z]) :
        x \in {NSub(p.x, centerX)}, y \in {NSub(p.y, centerY)},
        cosA \in {cosOfAngle(angle)}, sinA \in {sinOfAngle(angle)} } : TRUE

(***************************************************************************)
(* Inputs.                                                                 *)
(***************************************************************************)
MaxFlatShelves == 4

MaxCornerCount == 2

MkParams(width, length, height, depth, amplitude, shelfCount, columnCount, offset, shelfOffset, columnOffset) ==
  [width |-> width, length |-> length, height |-> height, depth |-> depth,
   amplitude |-> amplitude, shelfCount |-> shelfCount, columnCount |-> columnCount,
   offset |-> offset, shelfOffset |-> shelfOffset, columnOffset |-> columnOffset]

\* ShelfVisualizer: the static variant's parameters and the entry animation's start,
\* with the counts ranging from the single centred slice upwards
FlatInputs ==
  { MkParams(Nm(80), Nm(0), Nm(50), Nm(10), NFrac(5, 2), sc, cc, Nm(6), Nm(0), Nm(0)) :
      sc \in 1..MaxFlatShelves, cc \in {1, 5} }
  \cup
  { MkParams(Nm(30), Nm(0), Nm(20), Nm(10), Nm(0), sc, sc, Nm(6), Nm(0), Nm(0)) :
      sc \in 1..2 }

\* calculateDerivedParams(20, 80, 24) of the home generator
HomeNarrow ==
  MkParams(Nm(20), Nm(80), Nm(24), Nm(7), NFrac(17, 15), 3, 5, Nm(0), NFrac(34, 15), Nm(15))

\* CornerShelfVisualizer: the entry animation's target dimensions, with the counts
\* ranging from the single centred slice upwards
CornerInputs ==
  { MkParams(Nm(50), Nm(50), Nm(50), Nm(15), NFrac(5, 2), n, n, Nm(0), Nm(6), Nm(6)) :
      n \in 1..MaxCornerCount }
  \cup {HomeNarrow}

(***************************************************************************)
(* The slicers generateShelfGeometry and generateCornerShelfGeometry as    *)
(* state machines: one step per iteration of their loops.  The contour     *)
(* lines of the corner engine (surfaceContours), a display aid that the    *)
(* pieces neither read nor write, are not part of the state.               *)
(***************************************************************************)
VARIABLES
  engine,     \* "flat" or "corner"
  params,     \* the parameter snapshot
  pc,         \* "curves", "shelves", "columns", "done"
  i,          \* index of the piece being built
  j,          \* index of the point being built
  bis,        \* binary search of the corner column point: iter, tLow, tHigh, tMid
  frontEdge,
  backEdge,
  shelves,
  columns,
  curves,     \* the five control curves
  kRange,     \* corner engine: kStart, kEnd, kMin, kMax
  call,       \* a single call of a function of the engines: its name and arguments
  ret,        \* the value the call returned
  component,  \* the mounted component: "ShelfVisualizer", "CornerShelfVisualizer",
              \* "HomeShelfGenerator", or "none"
  userParams, \* home generator: width, length, height
  rotation,
  velocity,
  targetSpeed,    \* home generator; the constant defaultSpeed of the visualizers
  isDragging,
  draggingHandle, \* "width", "length", "height", "corner" or "null"
  lastMouseX,
  lastMouseY,
  lastTime,
  dragVelocity,
  steps,      \* animation frames and pointer events processed so far
  animatingSlider \* the slider the entry animation marks, or "null"

viewVars == <<component, userParams, rotation, velocity, targetSpeed, isDragging,
              draggingHandle, lastMouseX, lastMouseY, lastTime, dragVelocity, steps,
              animatingSlider>>

vars == <<engine, params, pc, i, j, bis, frontEdge, backEdge, shelves, columns,
          curves, kRange, call, ret, viewVars>>

\* no component is mounted
viewIdle ==
  /\ component = "none"
  /\ userParams = [width |-> 48, length |-> 32, height |-> 24]
  /\ rotation = Nm(0)
  /\ velocity = Nm(0)
  /\ targetSpeed = Nm(0)
  /\ isDragging = FALSE
  /\ draggingHandle = "null"
  /\ lastMouseX = 0
  /\ lastMouseY = 0
  /\ lastTime = 0
  /\ dragVelocity = Nm(0)
  /\ steps = 0
  /\ animatingSlider = "null"

NoCall == [fn |-> "none"]

NoRet == [x |-> Nm(0), y |-> Nm(0)]

NoRange == [kStart |-> Nm(0), kEnd |-> Nm(0), kMin |-> Nm(0), kMax |-> Nm(0)]

Init ==
  /\ engine \in {"flat", "corner"}
  /\ params \in (IF engine = "flat" THEN FlatInputs ELSE CornerInputs)
  /\ pc = "curves"
  /\ i = 0
  /\ j = 0
  /\ bis = bisectStart
  /\ frontEdge = <<>>
  /\ backEdge = <<>>
  /\ shelves = <<>>
  /\ columns = <<>>
  /\ curves = <<>>
  /\ kRange = NoRange
  /\ call = NoCall
  /\ ret = NoRet
  /\ viewIdle

\* the control curves, generated before the slices
GenerateCurves ==
  /\ pc = "curves"
  /\ pc' = "shelves"
  /\ curves' = IF engine = "corner" THEN cornerCurves(params) ELSE flatCurves(params)
  /\ UNCHANGED <<viewVars, call, ret, engine, params, i, j, bis, frontEdge, backEdge, shelves, columns, kRange>>

moreShelvesButLast == i < params.shelfCount - 1

\* the condition of the shelf loop
moreShelves == i < params.shelfCount

shelfSegments == IF engine = "flat" THEN FlatEdgeSegments ELSE CornerShelfSegments

\* one iteration of the front-edge loop of shelf i
ShelfPoint ==
  /\ pc = "shelves"
  /\ moreShelves
  /\ j <= shelfSegments
  /\ IF engine = "flat"
       THEN \E z \in {flatShelfZ(params, i)},
               x \in {NMul(NFrac(j, FlatEdgeSegments), params.width)} :
              \E y \in {getFrontSurfaceY(x, z, params.width, params.height,
                                         params.depth, params.amplitude)} :
                /\ frontEdge' = Append(frontEdge, [x |-> x, y |-> y, z |-> z])
                /\ backEdge' = Append(backEdge, [x |-> x, y |-> Nm(0), z |-> z])
       ELSE \E z \in {cornerShelfZ(params, i)}, t \in {NFrac(j, CornerShelfSegments)} :
              \E pos \in {getCornerFrontSurface(t, z, params)} :
                /\ frontEdge' = Append(frontEdge, [x |-> pos.x, y |-> pos.y, z |-> z])
                /\ backEdge' = backEdge
  /\ j' = j + 1
  /\ UNCHANGED <<viewVars, call, ret, engine, params, pc, i, bis, shelves, columns, curves, kRange>>

\* the rest of the body of the shelf loop: back edges, sides, shelves.push
ShelfFinish ==
  /\ pc = "shelves"
  /\ moreShelves
  /\ j > shelfSegments
  /\ IF engine = "flat"
       THEN \E z \in {flatShelfZ(params, i)} :
              shelves' = Append(shelves,
                [frontEdge |-> frontEdge,
                 backEdge  |-> backEdge,
                 leftSide  |-> <<frontEdge[1], [x |-> Nm(0), y |-> Nm(0), z |-> z]>>,
                 rightSide |-> <<frontEdge[Len(frontEdge)],
                                 [x |-> params.width, y |-> Nm(0), z |-> z]>>])
       ELSE \E z \in {cornerShelfZ(params, i)} :
              shelves' = Append(shelves,
                [frontEdge  |-> frontEdge,
                 backEdgeX  |-> cornerBackEdgeX(params, z),
                 backEdgeY  |-> cornerBackEdgeY(params, z),
                 widthSide  |-> <<frontEdge[1], [x |-> params.width, y |-> Nm(0), z |-> z]>>,
                 lengthSide |-> <<frontEdge[Len(frontEdge)],
                                  [x |-> Nm(0), y |-> params.length, z |-> z]>>])
  /\ i' = i + 1
  /\ j' = 0
  /\ frontEdge' = <<>>
  /\ backEdge' = <<>>
  /\ UNCHANGED <<viewVars, call, ret, engine, params, pc, bis, columns, curves, kRange>>

\* the shelf loop ends; the corner engine samples the range of x - y at mid-height
ShelvesDone ==
  /\ pc = "shelves"
  /\ ~moreShelves
  /\ pc' = "columns"
  /\ i' = 0
  /\ j' = 0
  /\ IF engine = "corner"
       THEN \E sampleZ \in {NDivInt(params.height, 2)} :
            \E startPos \in {getCornerFrontSurface(Nm(0), sampleZ, params)},
               endPos   \in {getCornerFrontSurface(Nm(1), sampleZ, params)} :
            \E kStart \in {NSub(startPos.x, startPos.y)},
               kEnd   \in {NSub(endPos.x, endPos.y)} :
            \E lo \in {NMin(kStart, kEnd)}, hi \in {NMax(kStart, kEnd)} :
              kRange' = [kStart |-> kStart, kEnd |-> kEnd,
                         kMin |-> NAdd(lo, params.columnOffset),
                         kMax |-> NSub(hi, params.columnOffset)]
       ELSE kRange' = kRange
  /\ UNCHANGED <<viewVars, call, ret, engine, params, bis, frontEdge, backEdge, shelves, columns, curves>>

\* corner engine: one iteration of the binary search for the point at height step j
BisectStep ==
  /\ pc = "columns"
  /\ engine = "corner"
  /\ i < params.columnCount
  /\ j <= ColumnSegments
  /\ bis.iter < BisectIterations
  /\ \E k \in {cornerColumnK(params, kRange, i)}, z \in {columnStepZ(params, j)},
        tMid \in {NDivInt(NAdd(bis.tLow, bis.tHigh), 2)} :
     \E pos \in {getCornerFrontSurface(tMid, z, params)} :
     \E diff \in {NSub(pos.x, pos.y)} :
       bis' = bisectNarrow(bis, tMid, diff, k)
  /\ UNCHANGED <<viewVars, call, ret, engine, params, pc, i, j, frontEdge, backEdge, shelves, columns,
                 curves, kRange>>

\* one iteration of the height loop of column i
ColumnPoint ==
  /\ pc = "columns"
  /\ i < params.columnCount
  /\ j <= ColumnSegments
  /\ IF engine = "flat"
       THEN \E x \in {flatColumnX(params, i)}, z \in {columnStepZ(params, j)} :
              \E y \in {getFrontSurfaceY(x, z, params.width, params.height,
                                         params.depth, params.amplitude)} :
                /\ frontEdge' = Append(frontEdge, [x |-> x, y |-> y, z |-> z])
                /\ backEdge' = Append(backEdge, [x |-> x, y |-> Nm(0), z |-> z])
                /\ bis' = bis
       ELSE \E k \in {cornerColumnK(params, kRange, i)}, z \in {columnStepZ(params, j)} :
              \E frontPos \in {getCornerFrontSurface(bis.tMid, z, params)},
                 backPos  \in {getBackPointFor45Slice(k, params.width, params.length)} :
                /\ bis.iter = BisectIterations
                /\ frontEdge' = Append(frontEdge, [x |-> frontPos.x, y |-> frontPos.y, z |-> z])
                /\ backEdge' = Append(backEdge, [x |-> backPos.x, y |-> backPos.y, z |-> z])
                /\ bis' = bisectStart
  /\ j' = j + 1
  /\ UNCHANGED <<viewVars, call, ret, engine, params, pc, i, shelves, columns, curves, kRange>>

\* the rest of the body of the column loop: sides, columns.push
ColumnFinish ==
  /\ pc = "columns"
  /\ i < params.columnCount
  /\ j > ColumnSegments
  /\ columns' =
       Append(columns,
         IF engine = "flat"
           THEN [frontEdge  |-> frontEdge,
                 backEdge   |-> backEdge,
                 bottomSide |-> <<frontEdge[1],
                                  [x |-> frontEdge[1].x, y |-> Nm(0), z |-> Nm(0)]>>,
                 topSide    |-> <<frontEdge[Len(frontEdge)],
                                  [x |-> frontEdge[1].x, y |-> Nm(0), z |-> params.height]>>]
           ELSE [frontEdge  |-> frontEdge,
                 backEdge   |-> backEdge,
                 bottomSide |-> <<frontEdge[1], backEdge[1]>>,
                 topSide    |-> <<frontEdge[Len(frontEdge)], backEdge[Len(backEdge)]>>])
  /\ i' = i + 1
  /\ j' = 0
  /\ frontEdge' = <<>>
  /\ backEdge' = <<>>
  /\ UNCHANGED <<viewVars, call, ret, engine, params, pc, bis, shelves, curves, kRange>>

\* the column loop ends and the geometry is returned
ColumnsDone ==
  /\ pc = "columns"
  /\ i >= params.columnCount
  /\ pc' = "done"
  /\ UNCHANGED <<viewVars, call, ret, engine, params, i, j, bis, frontEdge, backEdge, shelves, columns,
                 curves, kRange>>

Next ==
  \/ GenerateCurves
  \/ ShelfPoint
  \/ ShelfFinish
  \/ ShelvesDone
  \/ BisectStep
  \/ ColumnPoint
  \/ ColumnFinish
  \/ ColumnsDone

Spec == Init /\ [][Next]_vars

(***************************************************************************)
(* Properties of the generated geometry.                                   *)
(***************************************************************************)
Range(s) == {s[n] : n \in DOMAIN s}

\* every point of a shelf piece
shelfPoints(s) ==
  IF engine = "flat"
    THEN Range(s.frontEdge) \cup Range(s.backEdge) \cup Range(s.leftSide)
           \cup Range(s.rightSide)
    ELSE Range(s.frontEdge) \cup Range(s.backEdgeX) \cup Range(s.backEdgeY)
           \cup Range(s.widthSide) \cup Range(s.lengthSide)

\* the offset of the shelf range from floor and top
shelfOffsetOf == IF engine = "flat" THEN params.offset ELSE params.shelfOffset

\* C1: a shelf count (column count) of at most one yields exactly one shelf (column),
\* cut at the centre of its range: the shelf at z = height/2, the flat-wall column at
\* x = width/2, the corner column at k = (kMin + kMax)/2
SinglePieceCentred ==
  pc = "done" =>
    /\ params.shelfCount <= 1 =>
         /\ Len(shelves) = 1
         /\ \A p \in shelfPoints(shelves[1]) : NEq(p.z, NDivInt(params.height, 2))
    /\ params.columnCount <= 1 =>
         /\ Len(columns) = 1
         /\ Len(columns[1].frontEdge) = ColumnSegments + 1
         /\ IF engine = "flat"
              THEN \A p \in Range(columns[1].frontEdge) \cup Range(columns[1].backEdge) :
                     NEq(p.x, NDivInt(params.width, 2))
              ELSE \A p \in Range(columns[1].backEdge) :
                     NEq(NSub(p.x, p.y), NDivInt(NAdd(kRange.kMin, kRange.kMax), 2))

SinglePieceWitness ==
  /\ pc = "done"
  /\ engine = "corner"
  /\ params.shelfCount = 1
  /\ params.columnCount = 1
  /\ Len(shelves) = 1
  /\ Len(columns) = 1

SinglePieceFlatWitness ==
  /\ pc = "done"
  /\ engine = "flat"
  /\ params.shelfCount = 1
  /\ params.columnCount = 1
  /\ Len(shelves) = 1
  /\ Len(columns) = 1

\* C2: the geometry has exactly shelfCount shelves and columnCount columns, and every
\* front edge has segments + 1 points: 41 for flat-wall shelves and for all columns,
\* 81 for corner shelves; the flat-wall scenario of 4 shelves and 5 columns included
PieceCounts ==
  pc = "done" =>
    /\ Len(shelves) = params.shelfCount
    /\ Len(columns) = params.columnCount
    /\ \A n \in DOMAIN shelves :
         Len(shelves[n].frontEdge) = IF engine = "flat" THEN 41 ELSE 81
    /\ \A n \in DOMAIN columns : Len(columns[n].frontEdge) = 41
    /\ ( /\ engine = "flat"
         /\ params.shelfCount = 4
         /\ params.columnCount = 5 ) => Len(shelves) = 4 /\ Len(columns) = 5

PieceCountsWitness ==
  /\ pc = "done"
  /\ engine = "flat"
  /\ NEq(params.width, Nm(80)) /\ NEq(params.height, Nm(50)) /\ NEq(params.depth, Nm(10))
  /\ NEq(params.amplitude, NFrac(5, 2)) /\ NEq(params.offset, Nm(6))
  /\ params.shelfCount = 4
  /\ params.columnCount = 5
  /\ Len(shelves) = 4
  /\ Len(columns) = 5

\* the height claimed for shelf n (1-based) of count shelves
claimedShelfZ(n, count) ==
  NAdd(shelfOffsetOf,
       NMul(NFrac(n - 1, count - 1),
            NSub(params.height, NMul(Nm(2), shelfOffsetOf))))

\* C3: with n >= 2 shelves, shelf i (0-based) is at z_i = offset + (i/(n-1)) *
\* (height - 2*offset): the first at offset, the last at height - offset, consecutive
\* shelves equally spaced, and every point of the piece has z = z_i
\* (stated of each shelf when it has just been pushed)
ShelfHeights ==
  (pc = "shelves" /\ j = 0 /\ i >= 1 /\ params.shelfCount >= 2) =>
    /\ \A p \in shelfPoints(shelves[i]) : NEq(p.z, claimedShelfZ(i, params.shelfCount))
    /\ i = 1 => NEq(shelves[i].frontEdge[1].z, shelfOffsetOf)
    /\ i = params.shelfCount =>
         NEq(shelves[i].frontEdge[1].z, NSub(params.height, shelfOffsetOf))
    /\ i >= 2 =>
         NEq(NSub(shelves[i].frontEdge[1].z, shelves[i - 1].frontEdge[1].z),
             NDivInt(NSub(params.height, NMul(Nm(2), shelfOffsetOf)), params.shelfCount - 1))

ShelfHeightsWitness ==
  /\ pc = "shelves"
  /\ j = 0
  /\ engine = "corner"
  /\ params.shelfCount >= 3
  /\ i = params.shelfCount
  /\ Len(shelves) = params.shelfCount

\* C6: in the corner engine the surface at t = 0 is exactly (width, 0) and at t = 1
\* exactly (0, length), whatever the height and the amplitude: every corner shelf's
\* front edge starts at (width, 0, z) and ends at (0, length, z), and the mid-height
\* samples of the column stage lie there too
CornerEdgeOnWalls ==
  /\ (engine = "corner" /\ pc = "shelves" /\ j = 0 /\ i >= 1) =>
       LET e == shelves[i].frontEdge
       IN  /\ NEq(e[1].x, params.width) /\ NEq(e[1].y, Nm(0))
           /\ NEq(e[Len(e)].x, Nm(0)) /\ NEq(e[Len(e)].y, params.length)
           /\ e[1].z = e[Len(e)].z
  /\ (engine = "corner" /\ pc = "columns" /\ i = 0 /\ j = 0 /\ bis.iter = 0) =>
       /\ NEq(kRange.kStart, params.width)
       /\ NEq(kRange.kEnd, NNeg(params.length))

CornerEdgeOnWallsWitness ==
  /\ engine = "corner"
  /\ pc = "shelves"
  /\ j = 0
  /\ i >= 1
  /\ NSign(params.amplitude) > 0
  /\ Len(shelves[i].frontEdge) = CornerShelfSegments + 1
  /\ \E n \in DOMAIN curves[2] : ~NEq(curves[2][n].x, curves[2][1].x)

\* C8: for a corner column with target k in [kMin, kMax], the front-edge point found by
\* the 20 bisection steps has |(x - y) - k| <= 1e-4 * width, at every height step
\* (stated of each point when it has just been pushed)
BisectionTolerance ==
  (engine = "corner" /\ pc = "columns" /\ bis.iter = 0 /\ j >= 1) =>
    LET p == frontEdge[j]
        k == cornerColumnK(params, kRange, i)
    IN  (NLe(kRange.kMin, k) /\ NLe(k, kRange.kMax)) =>
          NLe(NAbs(NSub(NSub(p.x, p.y), k)), NMul(NFrac(1, 10000), params.width))

BisectionToleranceWitness ==
  /\ engine = "corner"
  /\ pc = "columns"
  /\ bis.iter = 0
  /\ j >= 2
  /\ Len(frontEdge) = j
  /\ NLe(kRange.kMin, cornerColumnK(params, kRange, i))
  /\ NLe(cornerColumnK(params, kRange, i), kRange.kMax)
  /\ ~NEq(NSub(frontEdge[j].x, frontEdge[j].y), cornerColumnK(params, kRange, i))

\* C9: x - y of the corner surface at a fixed height never increases as the path
\* parameter t grows from 0 to 1, for every parameter set the callers produce
\* (stated of consecutive points of a shelf's front edge, t = (j-1)/80 and j/80)
SurfaceDiffMonotone ==
  (engine = "corner" /\ pc = "shelves" /\ j >= 2) =>
    NLe(NSub(frontEdge[j].x, frontEdge[j].y), NSub(frontEdge[j - 1].x, frontEdge[j - 1].y))

\* the k claimed for column n (1-based) of count columns
claimedColumnK(n, count) ==
  NAdd(kRange.kMax, NMul(NFrac(n - 1, count - 1), NSub(kRange.kMin, kRange.kMax)))

\* C10: corner columns are slices of constant x - y = k_i, k_i = kMax + (i/(n-1)) *
\* (kMin - kMax) for n >= 2 columns, with kMin = min(kStart, kEnd) + columnOffset,
\* kMax = max(kStart, kEnd) - columnOffset, and kStart, kEnd the x - y of the surface
\* at t = 0 and t = 1 at z = height/2: the first column at kMax, the last at kMin,
\* consecutive columns equally spaced (stated of each column when just pushed)
ColumnSlices ==
  (engine = "corner" /\ pc = "columns" /\ j = 0 /\ bis.iter = 0 /\ i >= 1
     /\ params.columnCount >= 2) =>
    LET back     == columns[i].backEdge
        k        == NSub(back[1].x, back[1].y)
        sampleZ  == NDivInt(params.height, 2)
        startPos == getCornerFrontSurface(Nm(0), sampleZ, params)
        endPos   == getCornerFrontSurface(Nm(1), sampleZ, params)
        kStart   == NSub(startPos.x, startPos.y)
        kEnd     == NSub(endPos.x, endPos.y)
    IN  /\ NEq(kRange.kMin, NAdd(NMin(kStart, kEnd), params.columnOffset))
        /\ NEq(kRange.kMax, NSub(NMax(kStart, kEnd), params.columnOffset))
        /\ \A p \in Range(back) : NEq(NSub(p.x, p.y), claimedColumnK(i, params.columnCount))
        /\ i = 1 => NEq(k, kRange.kMax)
        /\ i = params.columnCount => NEq(k, kRange.kMin)
        /\ i >= 2 =>
             NEq(NSub(k, NSub(columns[i - 1].backEdge[1].x, columns[i - 1].backEdge[1].y)),
                 NDivInt(NSub(kRange.kMin, kRange.kMax), params.columnCount - 1))

ColumnSlicesWitness ==
  /\ engine = "corner"
  /\ pc = "columns"
  /\ j = 0
  /\ bis.iter = 0
  /\ params.columnCount >= 2
  /\ i >= 2
  /\ Len(columns) = i

\* values of k beyond the end of the x wall and beyond the end of the y wall
BeyondWidth == {NAdd(params.width, d) : d \in {NFrac(1, 2), Nm(1), Nm(100)}}

BeyondLength == {NNeg(NAdd(params.length, d)) : d \in {NFrac(1, 2), Nm(1), Nm(100)}}

\* C11: every back-edge point of a corner column with -length <= k <= width lies on a
\* wall (x = 0 or y = 0) and has x - y = k exactly: (k, 0) when k >= 0, (0, -k) when
\* k < 0, the same (x, y) at each of the 41 height steps; for k beyond the wall ends
\* the point is the wall end (width, 0) or (0, length) (stated of each column when
\* just pushed, and of the wall-intersection function for k beyond the ends)
BackEdgeOnWalls ==
  (engine = "corner" /\ pc = "columns" /\ j = 0 /\ bis.iter = 0 /\ i >= 1) =>
    LET back == columns[i].backEdge
        k    == cornerColumnK(params, kRange, i - 1)
    IN  /\ (NLe(NNeg(params.length), k) /\ NLe(k, params.width)) =>
             /\ Len(back) = ColumnSegments + 1
             /\ \A n \in DOMAIN back :
                  /\ NSign(back[n].x) = 0 \/ NSign(back[n].y) = 0
                  /\ NEq(NSub(back[n].x, back[n].y), k)
                  /\ IF NSign(k) >= 0
                       THEN NEq(back[n].x, k) /\ NEq(back[n].y, Nm(0))
                       ELSE NEq(back[n].x, Nm(0)) /\ NEq(back[n].y, NNeg(k))
                  /\ NEq(back[n].x, back[1].x)
                  /\ NEq(back[n].y, back[1].y)
                  /\ NEq(back[n].z, columnStepZ(params, n - 1))
        /\ \A q \in BeyondWidth :
             LET pt == getBackPointFor45Slice(q, params.width, params.length)
             IN  NEq(pt.x, params.width) /\ NEq(pt.y, Nm(0))
        /\ \A q \in BeyondLength :
             LET pt == getBackPointFor45Slice(q, params.width, params.length)
             IN  NEq(pt.x, Nm(0)) /\ NEq(pt.y, params.length)

\* a column on the y wall has just been pushed after a column on the x wall
BackEdgeOnWallsWitness ==
  /\ engine = "corner"
  /\ pc = "columns"
  /\ j = 0
  /\ bis.iter = 0
  /\ i >= 2
  /\ NSign(columns[i - 1].backEdge[1].x) > 0
  /\ NSign(columns[i].backEdge[ColumnSegments + 1].y) > 0
  /\ NSign(columns[i].backEdge[ColumnSegments + 1].x) = 0
  /\ NLe(NNeg(params.length), cornerColumnK(params, kRange, i - 1))

(***************************************************************************)
(* The surface functions applied to sampled arguments.                     *)
(***************************************************************************)
SampleSteps == 8

\* the five control positions and a grid in between
SampleT ==
  {Nm(0), NFrac(1, 6), NFrac(1, 2), NFrac(5, 6), Nm(1)}
    \cup {NFrac(n, SampleSteps) : n \in 1..(SampleSteps - 1)}

SurfaceInputs(e) ==
  IF e = "flat" THEN {q \in FlatInputs : q.shelfCount = 1 /\ q.columnCount = 1}
  ELSE {q \in CornerInputs : q.shelfCount = 1} \cup {HomeNarrow}

\* the variables of the slicers, at rest
generatorIdle ==
  /\ i = 0
  /\ j = 0
  /\ bis = bisectStart
  /\ frontEdge = <<>>
  /\ backEdge = <<>>
  /\ shelves = <<>>
  /\ columns = <<>>
  /\ curves = <<>>
  /\ kRange = NoRange

InitSurface ==
  /\ engine \in {"flat", "corner"}
  /\ params \in SurfaceInputs(engine)
  /\ pc = "call"
  /\ call \in { [fn |-> "surface", t |-> t, x |-> NMul(t, params.width), zn |-> n,
                 z |-> NMul(NFrac(n, SampleSteps), params.height)] :
                t \in SampleT, n \in 0..SampleSteps }
  /\ ret = NoRet
  /\ generatorIdle
  /\ viewIdle

\* getFrontSurfaceY(x, z, width, height, depth, amplitude)
ApplyFlatSurface ==
  /\ pc = "call"
  /\ call.fn = "surface"
  /\ engine = "flat"
  /\ \E y \in {getFrontSurfaceY(call.x, call.z, params.width, params.height,
                                params.depth, params.amplitude)} :
       ret' = [x |-> call.x, y |-> y]
  /\ pc' = "return"
  /\ UNCHANGED <<viewVars, engine, params, i, j, bis, frontEdge, backEdge, shelves, columns,
                 curves, kRange, call>>

\* getCornerFrontSurface(t, z, params)
ApplyCornerSurface ==
  /\ pc = "call"
  /\ call.fn = "surface"
  /\ engine = "corner"
  /\ ret' = getCornerFrontSurface(call.t, call.z, params)
  /\ pc' = "return"
  /\ UNCHANGED <<viewVars, engine, params, i, j, bis, frontEdge, backEdge, shelves, columns,
                 curves, kRange, call>>

NextSurface ==
  \/ ApplyFlatSurface
  \/ ApplyCornerSurface

SpecSurface == InitSurface /\ [][NextSurface]_vars

\* 1..5 for the control positions t = 0, 1/6, 1/2, 5/6, 1; 0 for any other t
controlIndex(t) ==
  IF NEq(t, Nm(0)) THEN 1
  ELSE IF NEq(t, NFrac(1, 6)) THEN 2
  ELSE IF NEq(t, NFrac(1, 2)) THEN 3
  ELSE IF NEq(t, NFrac(5, 6)) THEN 4
  ELSE IF NEq(t, Nm(1)) THEN 5
  ELSE 0

claimedMultiplier == <<0, 1, -1, 1, 0>>

\* the sample height is point n of a control curve
onCurveGrid == (CurveSegments * call.zn) % SampleSteps = 0

curveIndex == (CurveSegments * call.zn) \div SampleSteps + 1

SurfacePeriodicInZ ==
  (pc = "return" /\ call.fn = "surface" /\ (call.zn = 0 \/ call.zn = SampleSteps)) =>
    LET otherZ == IF call.zn = 0 THEN params.height ELSE Nm(0)
    IN  IF engine = "flat"
          THEN /\ NEq(ret.y, params.depth)
               /\ NEq(ret.y, getFrontSurfaceY(call.x, otherZ, params.width, params.height,
                                              params.depth, params.amplitude))
          ELSE LET other == getCornerFrontSurface(call.t, otherZ, params)
               IN  /\ NEq(ret.x, other.x) /\ NEq(ret.y, other.y)
                   /\ NEq(ret.x, cornerBaseX(call.t, params))
                   /\ NEq(ret.y, cornerBaseY(call.t, params))

SurfacePeriodicInZWitness ==
  /\ pc = "return"
  /\ call.fn = "surface"
  /\ engine = "corner"
  /\ call.zn = SampleSteps
  /\ controlIndex(call.t) = 2
  /\ NSign(params.amplitude) > 0
  /\ NEq(ret.y, params.depth)

(***************************************************************************)
(* rotateAndProject applied to sampled points, angles and pivots.          *)
(***************************************************************************)
\* angles, in 1/80 turns
SampleAngles == {0, 1, 10, 20, 33, 40, 59, 60, 79}

\* the pivot of projectGeometryWithRotation, projectCornerGeometryWithRotation
pivotX == NDivInt(params.width, 2)

pivotY == IF engine = "flat" THEN Nm(10) ELSE NDivInt(params.length, 2)

InitProj ==
  /\ engine \in {"flat", "corner"}
  /\ params \in SurfaceInputs(engine)
  /\ pc = "call"
  /\ call \in { [fn |-> "rotateAndProject", p |-> [x |-> x, y |-> y, z |-> z],
                 angle |-> a, centerX |-> pivotX, centerY |-> pivotY] :
                x \in {Nm(0), pivotX, params.width, Nm(13)},
                y \in {Nm(0), pivotY, params.depth},
                z \in {Nm(0), Nm(6), params.height},
                a \in SampleAngles }
  /\ ret = NoRet
  /\ generatorIdle
  /\ viewIdle

ApplyRotateAndProject ==
  /\ pc = "call"
  /\ call.fn = "rotateAndProject"
  /\ ret' = rotateAndProject(call.p, call.angle, call.centerX, call.centerY)
  /\ pc' = "return"
  /\ UNCHANGED <<viewVars, engine, params, i, j, bis, frontEdge, backEdge, shelves, columns,
                 curves, kRange, call>>

NextProj == ApplyRotateAndProject

SpecProj == InitProj /\ [][NextProj]_vars

\* C7: rotateAndProject is screenX = (x' - y') cos 30, screenY = -z + (x' + y') sin 30
\* * 0.5 of (x', y') = (x, y) rotated by the angle about the pivot, z passed through:
\* the same (x, y) at another height has the same screenX and a screenY that differs
\* by the difference of the heights, and the pivot has the same image at every angle
RotateThenProject ==
  (pc = "return" /\ call.fn = "rotateAndProject") =>
    LET dx    == NSub(call.p.x, call.centerX)
        dy    == NSub(call.p.y, call.centerY)
        cosA  == cosOfAngle(call.angle)
        sinA  == sinOfAngle(call.angle)
        xr    == NAdd(call.centerX, NSub(NMul(dx, cosA), NMul(dy, sinA)))
        yr    == NAdd(call.centerY, NAdd(NMul(dx, sinA), NMul(dy, cosA)))
        floor == rotateAndProject([x |-> call.p.x, y |-> call.p.y, z |-> Nm(0)],
                                  call.angle, call.centerX, call.centerY)
        still == rotateAndProject(call.p, 0, call.centerX, call.centerY)
    IN  /\ NEq(ret.x, NMul(NSub(xr, yr), COS_ISO))
        /\ NEq(ret.y, NAdd(NNeg(call.p.z), NMul(NMul(NAdd(xr, yr), SIN_ISO), NFrac(1, 2))))
        /\ NEq(ret.x, floor.x)
        /\ NEq(NSub(floor.y, ret.y), call.p.z)
        /\ (NEq(call.p.x, call.centerX) /\ NEq(call.p.y, call.centerY)) =>
             NEq(ret.x, still.x) /\ NEq(ret.y, still.y)

RotateThenProjectWitness ==
  /\ pc = "return"
  /\ call.fn = "rotateAndProject"
  /\ call.angle = 33
  /\ NEq(call.p.x, call.centerX)
  /\ NEq(call.p.y, call.centerY)
  /\ NSign(call.p.z) > 0
  /\ NSign(call.centerX) > 0

RotateThenProjectOffPivotWitness ==
  /\ pc = "return"
  /\ call.fn = "rotateAndProject"
  /\ call.angle = 33
  /\ ~NEq(call.p.x, call.centerX)
  /\ NSign(call.p.z) > 0
  /\ ~NEq(ret.x, rotateAndProject(call.p, 0, call.centerX, call.centerY).x)

(***************************************************************************)
(* HomeShelfGenerator/index.tsx: the parameters derived from the three     *)
(* user dimensions.                                                        *)
(***************************************************************************)
\* the range of the user dimensions
MinDim == 20

MaxDim == 80

\* results of Math.round are looked for in -RoundSpan..RoundSpan
RoundSpan == 1000

\* Math.round: the integer nearest to a, the larger one at a tie
mathRound(a) == FloorIn(NAdd(a, NFrac(1, 2)), -RoundSpan, RoundSpan)

derivedDepthLinear(minDim) == NAdd(Nm(7), NDivInt(NSub(minDim, Nm(20)), 10))

\* depth of calculateDerivedParams
derivedDepth(minDim) ==
  CHOOSE r \in
    { NAdd(NAdd(NMul(Nm(7), L0), NMul(Nm(10), L1)), NMul(Nm(13), L2)) :
        L0 \in {NDivInt(NMul(NSub(minDim, Nm(32)), NSub(minDim, Nm(80))), 720)},
        L1 \in {NDivInt(NMul(NSub(minDim, Nm(20)), NSub(minDim, Nm(80))), -576)},
        L2 \in {NDivInt(NMul(NSub(minDim, Nm(20)), NSub(minDim, Nm(32))), 2880)} } : TRUE

\* columnCount of calculateDerivedParams
derivedColumnCount(width, length) ==
  IF NLt(Nm(50), width) \/ NLt(Nm(50), length) THEN 5 ELSE 4

derivedShelfCountFloor(height) ==
  IF NLt(height, Nm(24)) THEN 2
  ELSE FloorIn(NAdd(Nm(3), NMul(NSub(height, Nm(24)), NFrac(3, 56))), -RoundSpan, RoundSpan)

\* shelfCount of calculateDerivedParams
derivedShelfCount(height) ==
  IF NLt(height, Nm(24)) THEN 2
  ELSE mathRound(NAdd(Nm(3), NMul(NSub(height, Nm(24)), NFrac(3, 56))))

\* amplitude of calculateDerivedParams
derivedAmplitude(height) == NAdd(Nm(1), NMul(NSub(height, Nm(20)), NFrac(2, 60)))

derivedShelfOffsetSteep(height) == NAdd(Nm(2), NMul(NSub(height, Nm(20)), NFrac(4, 6)))

\* shelfOffset of calculateDerivedParams
derivedShelfOffset(height) == NAdd(Nm(2), NMul(NSub(height, Nm(20)), NFrac(4, 60)))

calculateDerivedParams(width, length, height) ==
  CHOOSE r \in
    { [depth        |-> derivedDepth(minDim),
       amplitude    |-> derivedAmplitude(height),
       shelfCount   |-> derivedShelfCount(height),
       columnCount  |-> derivedColumnCount(width, length),
       shelfOffset  |-> derivedShelfOffset(height),
       columnOffset |-> Nm(15),
       wallAlign    |-> NFrac(85, 100)] : minDim \in {NMin(width, length)} } : TRUE

\* the user dimensions are whole numbers from MinDim to MaxDim
UserDims == MinDim..MaxDim

\* every width with lengths on both sides of each anchor, and every height
DerivedInputs ==
  { [fn |-> "calculateDerivedParams", width |-> w, length |-> l, height |-> h] :
      w \in UserDims, l \in {20, 32, 50, 51, 80}, h \in {20, 24, 80} }
  \cup
  { [fn |-> "calculateDerivedParams", width |-> w, length |-> 32, height |-> h] :
      w \in {20, 48, 80}, h \in UserDims }

InitDerived ==
  /\ engine = "corner"
  /\ params = HomeNarrow
  /\ pc = "call"
  /\ call \in DerivedInputs
  /\ ret = NoRet
  /\ generatorIdle
  /\ viewIdle

\* calculateDerivedParams(width, length, height)
ApplyCalculateDerivedParams ==
  /\ pc = "call"
  /\ call.fn = "calculateDerivedParams"
  /\ \E width \in {Nm(call.width)}, length \in {Nm(call.length)}, height \in {Nm(call.height)} :
       ret' = calculateDerivedParams(width, length, height)
  /\ pc' = "return"
  /\ UNCHANGED <<viewVars, engine, params, i, j, bis, frontEdge, backEdge, shelves, columns,
                 curves, kRange, call>>

NextDerived == ApplyCalculateDerivedParams

SpecDerived == InitDerived /\ [][NextDerived]_vars

\* the quadratic through (20, 7), (32, 10), (80, 13) in Newton's form
claimedDepth(m) ==
  NSub(NAdd(Nm(7), NDivInt(Nm(m - 20), 4)), NDivInt(Nm((m - 20) * (m - 32)), 320))

\* C12: the depth calculateDerivedParams returns is the quadratic through (20, 7),
\* (32, 10), (80, 13) at m = min(width, length): exactly 7, 10, 13 at m = 20, 32, 80,
\* and the same for every width, length and height with the same m
DepthInterpolation ==
  (pc = "return" /\ call.fn = "calculateDerivedParams") =>
    LET m == Min(call.width, call.length)
    IN  /\ NEq(ret.depth, claimedDepth(m))
        /\ m = 20 => NEq(ret.depth, Nm(7))
        /\ m = 32 => NEq(ret.depth, Nm(10))
        /\ m = 80 => NEq(ret.depth, Nm(13))
        /\ NEq(ret.depth, calculateDerivedParams(Nm(m), Nm(m), Nm(MaxDim)).depth)
        /\ NEq(ret.depth,
               calculateDerivedParams(Nm(call.length), Nm(call.width), Nm(MinDim)).depth)

DepthInterpolationWitness ==
  /\ pc = "return"
  /\ call.fn = "calculateDerivedParams"
  /\ call.width = 80
  /\ call.length = 32
  /\ NEq(ret.depth, Nm(10))

\* C13: shelfCount is 2 for every height below 24; for a height from 24 to 80 it is
\* the integer nearest to 3 + (height - 24) * 3/56 (the larger one at a tie): 3 at 24,
\* 6 at 80, one of 3, 4, 5, 6, and never smaller than at the height one below
ShelfCountByHeight ==
  (pc = "return" /\ call.fn = "calculateDerivedParams") =>
    LET h == call.height
        c == ret.shelfCount
        x56 == 168 + 3 * (h - 24)
    IN  /\ h < 24 => c = 2
        /\ (24 <= h /\ h <= 80) =>
             /\ c \in {3, 4, 5, 6}
             /\ 56 * c - 28 <= x56
             /\ x56 < 56 * c + 28
             /\ h = 24 => c = 3
             /\ h = 80 => c = 6
             /\ h > 24 => calculateDerivedParams(Nm(call.width), Nm(call.length),
                                                 Nm(h - 1)).shelfCount <= c

\* height 52 is the tie 4.5, rounded up
ShelfCountByHeightWitness ==
  /\ pc = "return"
  /\ call.fn = "calculateDerivedParams"
  /\ call.height = 52
  /\ ret.shelfCount = 5

(***************************************************************************)
(* The interactive components: ShelfVisualizer/index.tsx, the corner       *)
(* visualizer and HomeShelfGenerator/index.tsx.  Angles are radians, with  *)
(* Math.PI the fraction 7^7 / 2^18 = 3.14157.                              *)
(***************************************************************************)
PI == NMk(ZFromInt(823543), <<18, 0, 0, 0>>)

TwoPi == NMul(PI, Nm(2))

\* the integer part of a / m, for m > 0
truncQuotient(a, m) ==
  CHOOSE r \in
    { IF NSign(q) >= 0 THEN FloorIn(q, 0, RoundSpan) ELSE -FloorIn(NNeg(q), 0, RoundSpan) :
        q \in {NDiv(a, m)} } : TRUE

\* a % m: the remainder has the sign of a
jsMod(a, m) ==
  CHOOSE r \in { NSub(x, NMul(Nm(truncQuotient(x, y)), y)) : x \in {a}, y \in {m} } : TRUE

\* the fraction of a turn, in [0, 1), of an angle in radians
turnOf(angle) ==
  CHOOSE r \in
    { IF NSign(u) < 0 THEN NAdd(u, Nm(1)) ELSE u : u \in {NDiv(jsMod(angle, TwoPi), TwoPi)} } : TRUE

\* Math.sin(angle), Math.cos(angle) of an angle in radians
sinOfRadians(angle) == Sin2Pi(turnOf(angle))

cosOfRadians(angle) ==
  CHOOSE r \in
    { Sin2Pi(IF NLe(Nm(1), u) THEN NSub(u, Nm(1)) ELSE u) :
        u \in {NAdd(turnOf(angle), NFrac(1, 4))} } : TRUE

\* rotateAndProject of geometry.ts at an angle in radians
rotateAndProjectAt(p, angle, centerX, centerY) ==
  CHOOSE r \in
    { isometricProject([x |-> NAdd(NSub(NMul(x, cosA), NMul(y, sinA)), centerX),
                        y |-> NAdd(NAdd(NMul(x, sinA), NMul(y, cosA)), centerY),
                        z |-> p.z]) :
        x \in {NSub(p.x, centerX)}, y \in {NSub(p.y, centerY)},
        cosA \in {cosOfRadians(angle)}, sinA \in {sinOfRadians(angle)} } : TRUE

\* Math.max(lo, Math.min(hi, a))
clampTo(a, lo, hi) == NMax(lo, NMin(hi, a))

\* a quotient num / den of two numbers, den > 0: the result of a division whose
\* divisor is not a product of powers of 2, 3, 5 and 7
QMk(num, den) ==
  CHOOSE r \in
    { IF NSign(d) < 0 THEN [num |-> NNeg(n), den |-> NNeg(d)] ELSE [num |-> n, den |-> d] :
        n \in {num}, d \in {den} } : TRUE

QOfInt(n) == [num |-> Nm(n), den |-> Nm(1)]

QAddInt(n, q) ==
  CHOOSE r \in { [num |-> NAdd(NMul(Nm(n), x.den), x.num), den |-> x.den] : x \in {q} } : TRUE

QLe(a, b) ==
  CHOOSE r \in { NLe(NMul(x.num, y.den), NMul(y.num, x.den)) : x \in {a}, y \in {b} } : TRUE

QMax(a, b) == CHOOSE r \in { IF QLe(y, x) THEN x ELSE y : x \in {a}, y \in {b} } : TRUE

QMin(a, b) == CHOOSE r \in { IF QLe(x, y) THEN x ELSE y : x \in {a}, y \in {b} } : TRUE

\* the largest integer in lo..hi that is at most n / d, for integers n and d > 0
RECURSIVE ZFloorIn(_, _, _, _)
ZFloorIn(n, d, lo, hi) ==
  IF lo >= hi THEN lo
  ELSE LET mid == (lo + hi + 1) \div 2
       IN  IF ZSign(ZAdd(n, ZNeg(ZMul(ZFromInt(mid), d)))) >= 0
             THEN ZFloorIn(n, d, mid, hi)
             ELSE ZFloorIn(n, d, lo, mid - 1)

\* the largest integer in lo..hi that is at most q
QFloorIn(q, lo, hi) ==
  CHOOSE r \in
    { ZFloorIn(n, d, lo, hi) :
        <<n, d>> \in { <<NScaleTo(x.num, e), NScaleTo(x.den, e)>> :
                         <<x, e>> \in { <<y, ExpMax(y.num.e, y.den.e)>> : y \in {q} } } } : TRUE

\* Math.round of a quotient
QRound(q) ==
  CHOOSE r \in
    { QFloorIn(h, -RoundSpan, RoundSpan) :
        h \in { [num |-> NAdd(NMul(Nm(2), x.num), x.den), den |-> NMul(Nm(2), x.den)] :
                   x \in {q} } } : TRUE

clampedRoundNoUpper(prev, delta) ==
  QRound(QMax(QOfInt(MinDim), QAddInt(prev, delta)))

\* Math.round(Math.max(20, Math.min(80, prev + delta)))
clampedRound(prev, delta) ==
  QRound(QMax(QOfInt(MinDim), QMin(QOfInt(MaxDim), QAddInt(prev, delta))))

\* 0.001, the least determinant and the least axis length the drag handlers accept
DragEpsilon == NFrac(1, 1000)

\* screenDeltaToAxisDelta, given the axis vector that getAxisScreenVector returned;
\* axisLen < 0.001 is decided on the square of axisLen
axisDelta(axisVec, screenDx, screenDy, axis) ==
  CHOOSE r \in
    { IF NLt(lenSq, NMul(DragEpsilon, DragEpsilon)) THEN QOfInt(0)
      ELSE QMk(IF axis = "height" THEN NMul(dot10, NFrac(25, 10)) ELSE NNeg(dot10), lenSq) :
        lenSq \in {NAdd(NMul(axisVec.dx, axisVec.dx), NMul(axisVec.dy, axisVec.dy))},
        dot10 \in {NMul(Nm(10), NAdd(NMul(screenDx, axisVec.dx),
                                     NMul(screenDy, axisVec.dy)))} } : TRUE

\* the update of handleDimensionDragMove for a single-axis handle
axisDragUpdate(prev, axisVec, screenDx, screenDy, axis) ==
  CHOOSE r \in
    { [prev EXCEPT ![axis] = v] :
        v \in {clampedRound(prev[axis], axisDelta(axisVec, screenDx, screenDy, axis))} } : TRUE

cornerDragUpdateUnguarded(prev, a, b, screenDx, screenDy) ==
  LET det == NSub(NMul(a.dx, b.dy), NMul(b.dx, a.dy))
  IN  IF NSign(det) # 0
        THEN [prev EXCEPT
                !.width  = clampedRound(prev.width,
                             QMk(NMul(Nm(10), NSub(NMul(b.dy, screenDx), NMul(b.dx, screenDy))), det)),
                !.length = clampedRound(prev.length,
                             QMk(NMul(Nm(10), NAdd(NMul(NNeg(a.dy), screenDx), NMul(a.dx, screenDy))), det))]
        ELSE [prev EXCEPT !.width = RoundSpan, !.length = RoundSpan]

\* the update of handleDimensionDragMove for the corner handle, given the screen
\* vectors a, b of the floor plane's X and Y axes
cornerDragUpdate(prev, a, b, screenDx, screenDy) ==
  CHOOSE r \in
    { IF NLt(DragEpsilon, NAbs(det))
        THEN [prev EXCEPT
                !.width  = clampedRound(prev.width,
                             QMk(NMul(Nm(10), NSub(NMul(b.dy, screenDx), NMul(b.dx, screenDy))), det)),
                !.length = clampedRound(prev.length,
                             QMk(NMul(Nm(10), NAdd(NMul(NNeg(a.dy), screenDx), NMul(a.dx, screenDy))), det))]
        ELSE prev :
        det \in {NSub(NMul(a.dx, b.dy), NMul(b.dx, a.dy))} } : TRUE

friction == NFrac(97, 100)

blendRate == NFrac(1, 100)

baseSpeed == NFrac(12, 10000)

\* the largest momentum a released drag hands to the rotation
MaxMomentum == NFrac(5, 100)

\* the state of a component when it is mounted
initialRotation(c) ==
  IF c = "ShelfVisualizer" THEN NFrac(475, 100)
  ELSE IF c = "CornerShelfVisualizer" THEN NDivInt(NMul(Nm(20), PI), 180)
  ELSE NDivInt(NMul(Nm(344), PI), 180)

initialVelocity(c) == IF c = "ShelfVisualizer" THEN NFrac(-8, 10000) ELSE NFrac(8, 10000)

\* defaultSpeed of the two visualizers, the first targetSpeed of the home generator
initialTargetSpeed(c) == IF c = "ShelfVisualizer" THEN baseSpeed ELSE NNeg(baseSpeed)

initialUserParams == [width |-> 48, length |-> 32, height |-> 24]

\* params of the home generator: the user dimensions and the derived values
homeParams(u) ==
  CHOOSE r \in
    { MkParams(Nm(u.width), Nm(u.length), Nm(u.height), d.depth, d.amplitude, d.shelfCount,
               d.columnCount, Nm(0), d.shelfOffset, d.columnOffset) :
        d \in {calculateDerivedParams(Nm(u.width), Nm(u.length), Nm(u.height))} } : TRUE

\* params of a component when it is mounted
initialParams(c) ==
  IF c = "ShelfVisualizer"
    THEN MkParams(Nm(30), Nm(0), Nm(20), Nm(10), Nm(0), 2, 2, Nm(6), Nm(0), Nm(0))
  ELSE IF c = "CornerShelfVisualizer"
    THEN MkParams(Nm(30), Nm(30), Nm(20), Nm(8), Nm(0), 2, 2, Nm(0), Nm(6), Nm(6))
  ELSE homeParams(initialUserParams)

\* velocity after one animation frame
nextVelocity(v, target) ==
  CHOOSE r \in { NAdd(newV, NMul(NSub(target, newV), blendRate)) : newV \in {NMul(v, friction)} } : TRUE

\* normalizeAngle: degrees in [-180, 180]
normalizeAngle(rad) ==
  CHOOSE r \in
    { IF NLt(Nm(180), deg) THEN NSub(deg, Nm(360))
      ELSE IF NLt(deg, Nm(-180)) THEN NAdd(deg, Nm(360))
      ELSE deg : deg \in {jsMod(NDiv(NMul(rad, Nm(180)), PI), Nm(360))} } : TRUE

\* targetSpeed after an animation frame of the home generator
nextTargetSpeed(newRotation, target) ==
  CHOOSE r \in
    { IF NLe(angleDeg, Nm(-53)) /\ NSign(target) < 0 THEN baseSpeed
      ELSE IF NLe(Nm(40), angleDeg) /\ NSign(target) > 0 THEN NNeg(baseSpeed)
      ELSE target : angleDeg \in {normalizeAngle(newRotation)} } : TRUE

\* the momentum a released rotation drag leaves in velocity
releaseMomentumUnclamped(dragV) == NMul(dragV, Nm(30))

releaseMomentum(dragV) == clampTo(NMul(dragV, Nm(30)), NNeg(MaxMomentum), MaxMomentum)

\* projectHandlePoint of the home generator
projectHandlePoint(x, y, z) ==
  rotateAndProjectAt([x |-> x, y |-> y, z |-> z], rotation,
                     NDivInt(params.width, 2), NDivInt(params.length, 2))

\* the screen vector from p1 to p2
screenVector(p1, p2) == [dx |-> NSub(p2.x, p1.x), dy |-> NSub(p2.y, p1.y)]

\* getAxisScreenVector: heightOffset = 8, delta = 10
getAxisScreenVector(axis) ==
  IF axis = "width"
    THEN screenVector(projectHandlePoint(Nm(0), params.length, Nm(0)),
                      projectHandlePoint(Nm(10), params.length, Nm(0)))
  ELSE IF axis = "length"
    THEN screenVector(projectHandlePoint(Nm(0), Nm(0), Nm(0)),
                      projectHandlePoint(Nm(0), Nm(10), Nm(0)))
  ELSE screenVector(projectHandlePoint(Nm(-8), params.length, Nm(0)),
                    projectHandlePoint(Nm(-8), params.length, Nm(10)))

(***************************************************************************)
(* The components as state machines: one step per animation frame and per  *)
(* pointer event.  Pointer positions, the time between events and the      *)
(* ratio of viewBox units to pixels are inputs.                            *)
(***************************************************************************)
MaxSteps == 4

MaxTime == 100

Components == {"ShelfVisualizer", "CornerShelfVisualizer", "HomeShelfGenerator"}

PointerXs == {0, 1, 400}

PointerYs == {0, 3}

\* milliseconds between two readings of performance.now()
ElapsedTimes == {0, 50}

\* viewBox.width / rect.width and viewBox.height / rect.height
DragScales == {[x |-> NFrac(1, 4), y |-> NFrac(1, 2)]}

\* the handles with a mousedown handler
DragHandles == {"corner", "height"}

generatorVars == <<engine, pc, i, j, bis, frontEdge, backEdge, shelves, columns, curves,
                   kRange, call, ret>>

InitView ==
  /\ component \in Components
  /\ engine = (IF component = "ShelfVisualizer" THEN "flat" ELSE "corner")
  /\ params = initialParams(component)
  /\ pc = "mounted"
  /\ call = NoCall
  /\ ret = NoRet
  /\ generatorIdle
  /\ userParams = initialUserParams
  /\ rotation = initialRotation(component)
  /\ velocity = initialVelocity(component)
  /\ targetSpeed = initialTargetSpeed(component)
  /\ isDragging = FALSE
  /\ draggingHandle = "null"
  /\ lastMouseX = 0
  /\ lastMouseY = 0
  /\ lastTime = 0
  /\ dragVelocity = Nm(0)
  /\ steps = 0
  /\ animatingSlider = "null"

framePausedByRotationDragOnly == isDragging

\* the animation loop skips the frame: a drag is in progress
framePaused == isDragging \/ draggingHandle # "null"

\* animate: one animation frame
AnimationFrame ==
  /\ pc = "mounted"
  /\ steps < MaxSteps
  /\ IF framePaused
       THEN UNCHANGED <<rotation, velocity, targetSpeed, steps>>
       ELSE /\ velocity' = nextVelocity(velocity, targetSpeed)
            /\ \E newRotation \in {NAdd(rotation, velocity)} :
                 IF component = "HomeShelfGenerator"
                   THEN /\ targetSpeed' = nextTargetSpeed(newRotation, targetSpeed)
                        /\ rotation' = jsMod(NAdd(jsMod(newRotation, TwoPi), TwoPi), TwoPi)
                   ELSE /\ targetSpeed' = targetSpeed
                        /\ rotation' = jsMod(newRotation, TwoPi)
            /\ steps' = steps + 1
  /\ UNCHANGED <<generatorVars, animatingSlider, params, component, userParams, isDragging, draggingHandle,
                 lastMouseX, lastMouseY, lastTime, dragVelocity>>

\* handleMouseDown on the drawing
HandleMouseDown ==
  /\ pc = "mounted"
  /\ steps < MaxSteps
  /\ IF draggingHandle # "null"
       THEN UNCHANGED <<isDragging, lastMouseX, lastTime, dragVelocity, steps>>
       ELSE \E clientX \in PointerXs, elapsed \in ElapsedTimes :
              /\ lastTime + elapsed <= MaxTime
              /\ isDragging' = TRUE
              /\ lastMouseX' = clientX
              /\ lastTime' = lastTime + elapsed
              /\ dragVelocity' = Nm(0)
              /\ steps' = steps + 1
  /\ UNCHANGED <<generatorVars, animatingSlider, params, component, userParams, rotation, velocity,
                 targetSpeed, draggingHandle, lastMouseY>>

\* handleDimensionDragStart: mousedown on a handle of the home generator, which
\* stops the event before it reaches the drawing
HandleDimensionDragStart ==
  /\ pc = "mounted"
  /\ steps < MaxSteps
  /\ component = "HomeShelfGenerator"
  /\ \E handle \in DragHandles, clientX \in PointerXs, clientY \in PointerYs :
       /\ draggingHandle' = handle
       /\ lastMouseX' = clientX
       /\ lastMouseY' = clientY
  /\ steps' = steps + 1
  /\ UNCHANGED <<generatorVars, animatingSlider, params, component, userParams, rotation, velocity,
                 targetSpeed, isDragging, lastTime, dragVelocity>>

\* handleDimensionDragMove: the pointer moved while a handle is dragged
DimensionDragMove(clientX, clientY, scale) ==
  /\ lastMouseX' = clientX
  /\ lastMouseY' = clientY
  /\ \E screenDx \in {NMul(Nm(clientX - lastMouseX), scale.x)},
        screenDy \in {NMul(Nm(clientY - lastMouseY), scale.y)} :
       IF draggingHandle = "corner"
         THEN \E p0 \in {projectHandlePoint(Nm(0), Nm(0), Nm(0))},
                 pX \in {projectHandlePoint(Nm(10), Nm(0), Nm(0))},
                 pY \in {projectHandlePoint(Nm(0), Nm(10), Nm(0))} :
                userParams' = cornerDragUpdate(userParams, screenVector(p0, pX),
                                               screenVector(p0, pY), screenDx, screenDy)
         ELSE \E axisVec \in {getAxisScreenVector(draggingHandle)} :
                userParams' = axisDragUpdate(userParams, axisVec, screenDx, screenDy,
                                             draggingHandle)
  /\ params' = homeParams(userParams')
  /\ UNCHANGED <<rotation, lastTime, dragVelocity>>

\* the rotation drag of handleMouseMove
RotationDragMove(clientX, elapsed) ==
  /\ lastTime + elapsed <= MaxTime
  /\ \E deltaX \in {clientX - lastMouseX} :
       /\ dragVelocity' = (IF elapsed > 0
                             THEN NDivInt(NMul(Nm(deltaX), NFrac(2, 1000)),
                                          IF elapsed > 8 THEN elapsed ELSE 8)
                             ELSE dragVelocity)
       /\ rotation' = jsMod(NAdd(NAdd(rotation, NMul(Nm(deltaX), NFrac(5, 1000))), TwoPi),
                            TwoPi)
  /\ lastMouseX' = clientX
  /\ lastTime' = lastTime + elapsed
  /\ UNCHANGED <<userParams, params, lastMouseY>>

\* handleMouseMove on the drawing
HandleMouseMove ==
  /\ pc = "mounted"
  /\ steps < MaxSteps
  /\ IF draggingHandle # "null"
       THEN /\ \E clientX \in PointerXs, clientY \in PointerYs, scale \in DragScales :
                 DimensionDragMove(clientX, clientY, scale)
            /\ steps' = steps + 1
       ELSE IF isDragging
         THEN /\ \E clientX \in PointerXs, elapsed \in ElapsedTimes :
                   RotationDragMove(clientX, elapsed)
              /\ steps' = steps + 1
         ELSE UNCHANGED <<userParams, params, rotation, lastMouseX, lastMouseY, lastTime,
                          dragVelocity, steps>>
  /\ UNCHANGED <<generatorVars, animatingSlider, component, velocity, targetSpeed, isDragging,
                 draggingHandle>>

\* the body shared by handleMouseUp and handleMouseLeave
endOfDrag ==
  /\ IF draggingHandle # "null"
       THEN /\ draggingHandle' = "null"
            /\ steps' = steps + 1
            /\ UNCHANGED <<velocity, isDragging>>
       ELSE IF isDragging
         THEN /\ velocity' = releaseMomentum(dragVelocity)
              /\ isDragging' = FALSE
              /\ steps' = steps + 1
              /\ UNCHANGED draggingHandle
         ELSE UNCHANGED <<velocity, isDragging, draggingHandle, steps>>
  /\ UNCHANGED <<generatorVars, animatingSlider, params, component, userParams, rotation, targetSpeed,
                 lastMouseX, lastMouseY, lastTime, dragVelocity>>

\* handleMouseUp
HandleMouseUp ==
  /\ pc = "mounted"
  /\ steps < MaxSteps
  /\ endOfDrag

\* handleMouseLeave
HandleMouseLeave ==
  /\ pc = "mounted"
  /\ steps < MaxSteps
  /\ endOfDrag

\* positions of the Camera Angle slider, in degrees: its two ends and one between
CameraAngles == {0, 90, 360}

\* onChange of the corner visualizer's Camera Angle slider
CameraAngleChange ==
  /\ pc = "mounted"
  /\ component = "CornerShelfVisualizer"
  /\ \E deg \in CameraAngles : rotation' = NDivInt(NMul(Nm(deg), PI), 180)
  /\ UNCHANGED <<generatorVars, animatingSlider, params, component, userParams, velocity, targetSpeed,
                 isDragging, draggingHandle, lastMouseX, lastMouseY, lastTime, dragVelocity,
                 steps>>

NextView ==
  \/ AnimationFrame
  \/ HandleMouseDown
  \/ HandleDimensionDragStart
  \/ HandleMouseMove
  \/ HandleMouseUp
  \/ HandleMouseLeave
  \/ CameraAngleChange

SpecView == InitView /\ [][NextView]_vars

\* C14: in every state of the home generator, whatever handle drags happened
\* before it, width, length and height are integers from 20 to 80, and the
\* parameters the drawing is made from carry the same three values
UserDimsInRange ==
  component = "HomeShelfGenerator" =>
    /\ userParams.width \in MinDim..MaxDim
    /\ userParams.length \in MinDim..MaxDim
    /\ userParams.height \in MinDim..MaxDim
    /\ params.width = Nm(userParams.width)
    /\ params.length = Nm(userParams.length)
    /\ params.height = Nm(userParams.height)

\* a corner drag in progress has pushed the width to its upper limit and the
\* length to its lower limit
UserDimsInRangeWitness ==
  /\ component = "HomeShelfGenerator"
  /\ draggingHandle = "corner"
  /\ userParams.width = MaxDim
  /\ userParams.length = MinDim

(***************************************************************************)
(* The two screen-to-parameter solves of handleDimensionDragMove as        *)
(* functions of the screen vectors of the axes.  The vectors the           *)
(* projection produces are far from parallel and far from zero at every    *)
(* angle, so the guarded cases are reached only with the vectors as        *)
(* inputs.                                                                 *)
(***************************************************************************)
Vec(dx, dy) == [dx |-> dx, dy |-> dy]

\* screen vectors of the floor plane's X axis
SolveAxisXs == {Vec(Nm(1), Nm(0)), Vec(Nm(2), Nm(1))}

\* screen vectors of the floor plane's Y axis: parallel to the X axis, nearly
\* parallel on either side of the limit, null, and well apart
SolveAxisYs ==
  {Vec(Nm(2), Nm(1)), Vec(Nm(1), NFrac(1, 1000)), Vec(Nm(1), NFrac(11, 10000)),
   Vec(Nm(1), NFrac(-1, 1000)), Vec(Nm(1), NFrac(-2, 1000)), Vec(Nm(0), Nm(0)),
   Vec(Nm(-6), Nm(4))}

\* screen vectors of a single axis: null, shorter than the limit, of the limit's
\* length, and of ordinary length
SolveAxisVecs ==
  {Vec(Nm(0), Nm(0)), Vec(NFrac(1, 2000), Nm(0)), Vec(Nm(0), NFrac(-9, 10000)),
   Vec(NFrac(1, 1000), Nm(0)), Vec(Nm(0), Nm(-10)), Vec(Nm(3), Nm(4))}

\* pointer movements in viewBox units
SolveScreenDeltas == {Vec(Nm(0), Nm(0)), Vec(Nm(1), Nm(0)), Vec(Nm(100), Nm(50)), Vec(Nm(-3), Nm(2))}

SolvePrevs == {initialUserParams, [width |-> 20, length |-> 80, height |-> 52]}

SolveInputs ==
  [fn : {"cornerDragUpdate"}, prev : SolvePrevs, a : SolveAxisXs, b : SolveAxisYs,
   screen : SolveScreenDeltas]
  \cup
  [fn : {"axisDragUpdate"}, prev : SolvePrevs, axisVec : SolveAxisVecs,
   axis : {"width", "length", "height"}, screen : SolveScreenDeltas]

InitSolve ==
  /\ component = "HomeShelfGenerator"
  /\ engine = "corner"
  /\ pc = "call"
  /\ call \in SolveInputs
  /\ userParams = call.prev
  /\ params = homeParams(userParams)
  /\ draggingHandle = (IF call.fn = "cornerDragUpdate" THEN "corner" ELSE call.axis)
  /\ ret = NoRet
  /\ generatorIdle
  /\ rotation = initialRotation(component)
  /\ velocity = initialVelocity(component)
  /\ targetSpeed = initialTargetSpeed(component)
  /\ isDragging = FALSE
  /\ lastMouseX = 0
  /\ lastMouseY = 0
  /\ lastTime = 0
  /\ dragVelocity = Nm(0)
  /\ steps = 0
  /\ animatingSlider = "null"

\* the corner branch of handleDimensionDragMove
ApplyCornerDragUpdate ==
  /\ pc = "call"
  /\ call.fn = "cornerDragUpdate"
  /\ userParams' = cornerDragUpdate(userParams, call.a, call.b, call.screen.dx, call.screen.dy)
  /\ params' = homeParams(userParams')
  /\ pc' = "return"
  /\ UNCHANGED <<engine, animatingSlider, i, j, bis, frontEdge, backEdge, shelves, columns, curves, kRange,
                 call, ret, component, rotation, velocity, targetSpeed, isDragging,
                 draggingHandle, lastMouseX, lastMouseY, lastTime, dragVelocity, steps>>

\* the single-axis branch of handleDimensionDragMove; ret is the change
\* screenDeltaToAxisDelta returned
ApplyAxisDragUpdate ==
  /\ pc = "call"
  /\ call.fn = "axisDragUpdate"
  /\ ret' = axisDelta(call.axisVec, call.screen.dx, call.screen.dy, call.axis)
  /\ userParams' = axisDragUpdate(userParams, call.axisVec, call.screen.dx, call.screen.dy,
                                  call.axis)
  /\ params' = homeParams(userParams')
  /\ pc' = "return"
  /\ UNCHANGED <<engine, animatingSlider, i, j, bis, frontEdge, backEdge, shelves, columns, curves, kRange,
                 call, component, rotation, velocity, targetSpeed, isDragging,
                 draggingHandle, lastMouseX, lastMouseY, lastTime, dragVelocity, steps>>

NextSolve == ApplyCornerDragUpdate \/ ApplyAxisDragUpdate

SpecSolve == InitSolve /\ [][NextSolve]_vars

\* the determinant of the matrix of the two screen vectors
basisDeterminant(a, b) == NSub(NMul(a.dx, b.dy), NMul(b.dx, a.dy))

\* C15: a corner move whose basis determinant is at most 0.001 in absolute value
\* leaves width, length and height as they were; a single-axis move whose axis
\* vector is shorter than 0.001 changes the parameter by 0; and whatever the
\* vectors are, the three parameters stay whole numbers from 20 to 80
DegenerateBasisSkipsUpdate ==
  pc = "return" =>
    /\ userParams.width \in MinDim..MaxDim
    /\ userParams.length \in MinDim..MaxDim
    /\ userParams.height \in MinDim..MaxDim
    /\ call.fn = "cornerDragUpdate" =>
         (NLe(NAbs(basisDeterminant(call.a, call.b)), NFrac(1, 1000)) =>
            userParams = call.prev)
    /\ call.fn = "axisDragUpdate" =>
         (NLt(NAdd(NMul(call.axisVec.dx, call.axisVec.dx),
                   NMul(call.axisVec.dy, call.axisVec.dy)), NFrac(1, 1000000)) =>
            /\ NSign(ret.num) = 0
            /\ userParams = call.prev)

\* a corner move with a determinant of exactly 0.001 and a pointer that moved
\* has been applied, and nothing changed
DegenerateBasisSkipsUpdateWitness ==
  /\ pc = "return"
  /\ call.fn = "cornerDragUpdate"
  /\ NEq(basisDeterminant(call.a, call.b), NFrac(1, 1000))
  /\ NSign(call.screen.dx) # 0
  /\ userParams = call.prev

\* C16: in the home generator a rotation drag (isDragging) and a handle drag
\* (draggingHandle not null) are never in progress in the same state
DragsMutuallyExclusive ==
  component = "HomeShelfGenerator" => ~(isDragging /\ draggingHandle # "null")

\* a drag of either kind is in progress
dragInProgress == isDragging \/ draggingHandle # "null"

\* the step is a move event of a rotation drag
rotationDragMoved == isDragging /\ draggingHandle = "null" /\ HandleMouseMove

\* the angle after the step is the angle before it plus 0.005 times the pointer's
\* horizontal movement, brought into [0, 2 pi)
turnedByPointerMovement ==
  /\ NSign(rotation') >= 0
  /\ NLt(rotation', TwoPi)
  /\ \E k \in -1..1 :
       NEq(rotation', NAdd(NAdd(rotation, NMul(Nm(lastMouseX' - lastMouseX), NFrac(5, 1000))),
                           NMul(Nm(k), TwoPi)))

DragEndsOnUpOrLeave ==
  [][/\ (HandleMouseUp \/ HandleMouseLeave) => (~isDragging' /\ draggingHandle' = "null")
     /\ (isDragging /\ ~isDragging') => (HandleMouseUp \/ HandleMouseLeave)
     /\ (draggingHandle # "null" /\ draggingHandle' = "null") =>
          (HandleMouseUp \/ HandleMouseLeave)]_vars

\* the momentum the release of a rotation drag is said to leave
claimedMomentum(dragV) ==
  LET m == NMul(Nm(30), dragV)
  IN  IF NLt(MaxMomentum, m) THEN MaxMomentum
      ELSE IF NLt(m, NNeg(MaxMomentum)) THEN NNeg(MaxMomentum)
      ELSE m

\* C19: |velocity| <= 0.05 in every state; the release of a rotation drag sets
\* velocity to 30 * dragVelocity limited to [-0.05, 0.05]; the end of a handle drag
\* leaves velocity as it is
VelocityWithinMomentum ==
  /\ [](NLe(NAbs(velocity), MaxMomentum))
  /\ [][/\ (isDragging /\ ~isDragging') => NEq(velocity', claimedMomentum(dragVelocity))
        /\ (draggingHandle # "null" /\ draggingHandle' = "null") => velocity' = velocity]_vars

\* a fast rotation drag has been released and its momentum was cut to 0.05
VelocityWithinMomentumWitness ==
  /\ ~isDragging
  /\ NLt(MaxMomentum, NMul(Nm(30), dragVelocity))
  /\ NEq(velocity, MaxMomentum)

\* the baseline speed of the component: defaultSpeed, or targetSpeed in the home
\* generator
baselineSpeed == targetSpeed

\* C20: a frame with no drag in progress and an unchanged baseline sets velocity
\* to v*friction + (baseline - v*friction)*blendRate, and the distance of the
\* velocity to the baseline does not grow
VelocityDecaysTowardBaseline ==
  [][(AnimationFrame /\ ~dragInProgress /\ targetSpeed' = targetSpeed) =>
       /\ NEq(velocity', NAdd(NMul(velocity, friction),
                              NMul(NSub(baselineSpeed, NMul(velocity, friction)), blendRate)))
       /\ NLe(NAbs(NSub(baselineSpeed, velocity')), NAbs(NSub(baselineSpeed, velocity)))]_vars

\* the depth derived for width = length = m
depthAt(m) == calculateDerivedParams(Nm(m), Nm(m), Nm(MinDim)).depth

\* C29, as claimed: for m = min(width, length) from 20 to 80 the derived depth is
\* never smaller than at m - 1 and lies within [7, 13]
DepthMonotoneWithinAnchors ==
  (pc = "return" /\ call.fn = "calculateDerivedParams") =>
    LET m == Min(call.width, call.length)
    IN  /\ NLe(Nm(7), ret.depth)
        /\ NLe(ret.depth, Nm(13))
        /\ m > MinDim => NLe(depthAt(m - 1), ret.depth)

\* C29, amended: the derived depth rises with m from 7 at m = 20 to 13.6125 at
\* m = 66 and falls from there to 13 at m = 80; it lies within [7, 13.6125] and is
\* above 13 exactly for m from 53 to 79
DepthRisesThenFalls ==
  (pc = "return" /\ call.fn = "calculateDerivedParams") =>
    LET m == Min(call.width, call.length)
    IN  /\ NLe(Nm(7), ret.depth)
        /\ NLe(ret.depth, NFrac(1089, 80))
        /\ (MinDim < m /\ m <= 66) => NLt(depthAt(m - 1), ret.depth)
        /\ (66 < m /\ m <= MaxDim) => NLt(ret.depth, depthAt(m - 1))
        /\ m = 66 => NEq(ret.depth, NFrac(1089, 80))
        /\ NLt(Nm(13), ret.depth) <=> (52 < m /\ m < MaxDim)

\* the depth at its peak, m = 66
DepthRisesThenFallsWitness ==
  /\ pc = "return"
  /\ call.fn = "calculateDerivedParams"
  /\ call.width = 66
  /\ call.length = 80
  /\ NEq(ret.depth, NFrac(1089, 80))

\* the parameter set of the home generator for a call of calculateDerivedParams
\* and its result
derivedParamsOf(c, d) ==
  MkParams(Nm(c.width), Nm(c.length), Nm(c.height), d.depth, d.amplitude, d.shelfCount,
           d.columnCount, Nm(0), d.shelfOffset, d.columnOffset)

\* C28: for whole width, length and height from 20 to 80 the derived parameters
\* give a shelf range that is not inverted (shelfOffset < height / 2, first shelf
\* below the last), a column range that is not inverted (2 * columnOffset <
\* width + length with columnOffset = 15, kMin < kMax), and control curves that do
\* not cross (depth < width - depth * 2/3 and depth < length - depth * 2/3)
DerivedParamsValid ==
  (pc = "return" /\ call.fn = "calculateDerivedParams") =>
    LET p        == derivedParamsOf(call, ret)
        midZ     == NDivInt(p.height, 2)
        startPos == getCornerFrontSurface(Nm(0), midZ, p)
        endPos   == getCornerFrontSurface(Nm(1), midZ, p)
        kStart   == NSub(startPos.x, startPos.y)
        kEnd     == NSub(endPos.x, endPos.y)
    IN  /\ NLt(p.shelfOffset, midZ)
        /\ NLt(cornerShelfZ(p, 0), cornerShelfZ(p, p.shelfCount - 1))
        /\ NEq(p.columnOffset, Nm(15))
        /\ NLt(NMul(Nm(2), p.columnOffset), NAdd(p.width, p.length))
        /\ NLt(NAdd(NMin(kStart, kEnd), p.columnOffset), NSub(NMax(kStart, kEnd), p.columnOffset))
        /\ NLt(p.depth, NSub(p.width, TwoThirds(p.depth)))
        /\ NLt(p.depth, NSub(p.length, TwoThirds(p.depth)))

\* the smallest shelf: width, length and height 20, where the column range is
\* the narrowest, from -5 to 5
DerivedParamsValidWitness ==
  /\ pc = "return"
  /\ call.fn = "calculateDerivedParams"
  /\ call.width = MinDim
  /\ call.length = MinDim
  /\ call.height = MinDim
  /\ NEq(ret.depth, Nm(7))
  /\ NEq(ret.shelfOffset, Nm(2))

\* C30: in the home generator a mouse-move during a handle drag changes none of
\* rotation, velocity and targetSpeed, a mouse-move during a rotation drag changes
\* none of width, length and height, and a mouse-move with no drag in progress
\* changes none of the six
DragEffectsDisjoint ==
  [][(component = "HomeShelfGenerator" /\ HandleMouseMove) =>
       /\ draggingHandle # "null" =>
            (rotation' = rotation /\ velocity' = velocity /\ targetSpeed' = targetSpeed)
       /\ isDragging => userParams' = userParams
       /\ ~dragInProgress =>
            /\ rotation' = rotation /\ velocity' = velocity /\ targetSpeed' = targetSpeed
            /\ userParams' = userParams]_vars

\* C21: in every state of each component the rotation angle is at least 0 and
\* less than 2 pi
RotationWrapped == NSign(rotation) >= 0 /\ NLt(rotation, TwoPi)


(***************************************************************************)
(* ShelfVisualizer/index.tsx: the fixed viewBox of the interactive         *)
(* flat-wall visualizer and the geometry it displays while it turns.       *)
(***************************************************************************)
\* parameter sets within the sliders' ranges: the entry animation's start, a narrow
\* and deep set, a narrow, deep and tall set, a wide and shallow set
BoxInputs ==
  { MkParams(Nm(30), Nm(0), Nm(20), Nm(10), Nm(0), 2, 2, Nm(6), Nm(0), Nm(0)),
    MkParams(Nm(30), Nm(0), Nm(20), Nm(25), Nm(6), 2, 2, Nm(5), Nm(0), Nm(0)),
    MkParams(Nm(30), Nm(0), Nm(80), Nm(25), Nm(6), 2, 2, Nm(10), Nm(0), Nm(0)),
    MkParams(Nm(100), Nm(0), Nm(20), Nm(10), Nm(0), 2, 2, Nm(2), Nm(0), Nm(0)) }

\* the angles the live rotation takes, in 1/80 turns
BoxTurns == {0, 4, 10, 16, 20, 36, 40, 56, 60, 70}

\* the two angles fixedViewBox samples
tallAngle == NFrac(393, 100)

wideAngle == NFrac(11, 2)

\* the front edge followed by the back edge of piece n of generateShelfGeometry:
\* the shelves, then the columns; the side points of a piece are among these
flatPiecePoints(p, n) ==
  SubSeq(
    [m \in 1..(2 * (FlatEdgeSegments + 1)) |->
       CHOOSE pt \in
         { [x |-> x,
            y |-> IF m > FlatEdgeSegments + 1 THEN Nm(0)
                  ELSE getFrontSurfaceY(x, z, p.width, p.height, p.depth, p.amplitude),
            z |-> z] :
           <<x, z>> \in
             { IF n < p.shelfCount
                 THEN <<NMul(NFrac(s, FlatEdgeSegments), p.width), flatShelfZ(p, n)>>
                 ELSE <<flatColumnX(p, n - p.shelfCount), columnStepZ(p, s)>> :
               s \in {(m - 1) % (FlatEdgeSegments + 1)} } } : TRUE],
    1, 2 * (FlatEdgeSegments + 1))

\* rotateAndProject with Math.cos(angle) and Math.sin(angle) already evaluated
rotateAndProjectBy(p, cosA, sinA, centerX, centerY) ==
  CHOOSE r \in
    { isometricProject([x |-> NAdd(NSub(NMul(x, cosA), NMul(y, sinA)), centerX),
                        y |-> NAdd(NAdd(NMul(x, sinA), NMul(y, cosA)), centerY),
                        z |-> p.z]) :
        x \in {NSub(p.x, centerX)}, y \in {NSub(p.y, centerY)} } : TRUE

\* projectGeometryWithRotation on the points of one piece
projectPieceWithRotation(pts, angle, width) ==
  CHOOSE r \in
    { SubSeq([m \in DOMAIN pts |-> rotateAndProjectBy(pts[m], cosA, sinA, centerX, Nm(10))],
             1, Len(pts)) :
        cosA \in {cosOfRadians(angle)}, sinA \in {sinOfRadians(angle)},
        centerX \in {NDivInt(width, 2)} } : TRUE

\* the smallest rectangle holding two rectangles
joinBounds(a, b) ==
  [minX |-> NMin(a.minX, b.minX), maxX |-> NMax(a.maxX, b.maxX),
   minY |-> NMin(a.minY, b.minY), maxY |-> NMax(a.maxY, b.maxY)]

\* calculateBounds: update(p) over the projected points lo..hi of a sequence
RECURSIVE updateBounds(_, _, _)
updateBounds(pts, lo, hi) ==
  IF lo = hi
    THEN CHOOSE r \in { [minX |-> q.x, maxX |-> q.x, minY |-> q.y, maxY |-> q.y] :
                          q \in {pts[lo]} } : TRUE
  ELSE CHOOSE r \in
         { joinBounds(a, b) :
             a \in {updateBounds(pts, lo, (lo + hi) \div 2)},
             b \in {updateBounds(pts, (lo + hi) \div 2 + 1, hi)} } : TRUE

\* generateShelfGeometry: the points of the shelves, then of the columns
flatGeometryPoints(p) ==
  SubSeq([n \in 1..(p.shelfCount + p.columnCount) |-> flatPiecePoints(p, n - 1)],
         1, p.shelfCount + p.columnCount)

\* calculateBounds of the projected geometry, over the pieces n..last
RECURSIVE boundsFrom(_, _, _, _)
boundsFrom(geometry, angle, width, n) ==
  CHOOSE r \in
    { IF n = Len(geometry) THEN b ELSE joinBounds(b, boundsFrom(geometry, angle, width, n + 1)) :
        b \in { updateBounds(pts, 1, Len(pts)) :
                 pts \in {projectPieceWithRotation(geometry[n], angle, width)} } } : TRUE

\* calculateBounds(projectGeometryWithRotation(geometry, angle, width, height))
calculateBounds(geometry, angle, width) == boundsFrom(geometry, angle, width, 1)

\* fixedViewBox: minX - padding + offsetX, minY - padding + offsetY, scaledW, scaledH
\* with padding 10 and scale 1 / 1.15, so that offsetX = (w - w * 20 / 23) / 2 = 3 w / 46
fixedViewBox(p) ==
  CHOOSE r \in
    { [x      |-> QMk(NAdd(NMul(Nm(46), NSub(b.minX, Nm(10))), NMul(Nm(3), w)), Nm(46)),
       y      |-> QMk(NAdd(NMul(Nm(46), NSub(b.minY, Nm(10))), NMul(Nm(3), h)), Nm(46)),
       width  |-> QMk(NMul(Nm(20), w), Nm(23)),
       height |-> QMk(NMul(Nm(20), h), Nm(23))] :
      <<b, w, h>> \in
        { <<c, NAdd(NSub(c.maxX, c.minX), Nm(20)), NAdd(NSub(c.maxY, c.minY), Nm(20))>> :
            c \in { joinBounds(t, v) :
                    <<t, v>> \in { <<calculateBounds(geometry, tallAngle, p.width),
                                      calculateBounds(geometry, wideAngle, p.width)>> :
                                    geometry \in {flatGeometryPoints(p)} } } } } : TRUE

InitBox ==
  /\ engine = "flat"
  /\ params \in BoxInputs
  /\ pc = "render"
  /\ call = NoCall
  /\ ret = NoRet
  /\ generatorIdle
  /\ viewIdle

\* the fixedViewBox memo of the first render
ComputeFixedViewBox ==
  /\ pc = "render"
  /\ ret' = fixedViewBox(params)
  /\ pc' = "boxed"
  /\ UNCHANGED <<viewVars, engine, params, i, j, bis, frontEdge, backEdge, shelves, columns,
                 curves, kRange, call>>

\* the projected memo of a later render, at the angle the rotation has reached; one
\* piece of it
ProjectPiece ==
  /\ pc = "boxed"
  /\ \E k \in BoxTurns, n \in 0..(params.shelfCount + params.columnCount - 1) :
       \E angle \in {NDivInt(NMul(Nm(k), TwoPi), 80)} :
         \E pts \in {projectPieceWithRotation(flatPiecePoints(params, n), angle, params.width)} :
           /\ rotation' = angle
           /\ i' = n
           /\ frontEdge' = SubSeq(pts, 1, FlatEdgeSegments + 1)
           /\ backEdge' = SubSeq(pts, FlatEdgeSegments + 2, 2 * (FlatEdgeSegments + 1))
  /\ pc' = "projected"
  /\ UNCHANGED <<engine, animatingSlider, params, j, bis, shelves, columns, curves, kRange, call, ret,
                 component, userParams, velocity, targetSpeed, isDragging, draggingHandle,
                 lastMouseX, lastMouseY, lastTime, dragVelocity, steps>>

NextBox == ComputeFixedViewBox \/ ProjectPiece

SpecBox == InitBox /\ [][NextBox]_vars

\* a point lies in the viewBox vb scaled back up by 1.15 about its centre: each side
\* moves out by (1.15 - 1) / 2 = 3 / 40 of the viewBox's extent
inZoomedOutBox(q, vb) ==
  LET lo(a, e) == NSub(NMul(a.num, e.den), NMul(NFrac(3, 40), NMul(e.num, a.den)))
      hi(a, e) == NAdd(NMul(a.num, e.den), NMul(NFrac(43, 40), NMul(e.num, a.den)))
      at(c, a, e) == NMul(c, NMul(a.den, e.den))
  IN  /\ NLe(lo(vb.x, vb.width), at(q.x, vb.x, vb.width))
      /\ NLe(at(q.x, vb.x, vb.width), hi(vb.x, vb.width))
      /\ NLe(lo(vb.y, vb.height), at(q.y, vb.y, vb.height))
      /\ NLe(at(q.y, vb.y, vb.height), hi(vb.y, vb.height))

\* C22: at every rotation angle every projected point of every piece lies inside
\* the rectangle fixedViewBox returns for the parameter set, scaled back up by the
\* zoom-in factor
ProjectedInsideFixedViewBox ==
  pc = "projected" =>
    \A m \in 1..(FlatEdgeSegments + 1) :
      inZoomedOutBox(frontEdge[m], ret) /\ inZoomedOutBox(backEdge[m], ret)


(***************************************************************************)
(* ShelfVisualizer/index.tsx: the viewBox of the drawing over renders.  The *)
(* file holds two components: the first (lines 55-262) computes its viewBox *)
(* together with the projection, the second (from line 312) keeps a        *)
(* fixedViewBox memo.                                                      *)
(***************************************************************************)
FrameSteps == 3

FrameComponents == {"ShelfVisualizerStatic", "ShelfVisualizer"}

\* a position of the Depth slider
FrameDepths == {25}

FramePointerXs == {0, 40, 400}

frameInitialParams(c) ==
  IF c = "ShelfVisualizerStatic"
    THEN MkParams(Nm(80), Nm(0), Nm(50), Nm(10), NFrac(5, 2), 4, 5, Nm(6), Nm(0), Nm(0))
    ELSE initialParams(c)

frameInitialRotation(c) ==
  IF c = "ShelfVisualizerStatic" THEN NFrac(35, 100) ELSE initialRotation(c)

\* viewBox of the first component: the bounds at the current angle and a padding of 10
rotatingViewBox(p, angle) ==
  CHOOSE r \in
    { [x      |-> QMk(NSub(b.minX, Nm(10)), Nm(1)),
       y      |-> QMk(NSub(b.minY, Nm(10)), Nm(1)),
       width  |-> QMk(NAdd(NSub(b.maxX, b.minX), Nm(20)), Nm(1)),
       height |-> QMk(NAdd(NSub(b.maxY, b.minY), Nm(20)), Nm(1))] :
      b \in {calculateBounds(flatGeometryPoints(p), angle, p.width)} } : TRUE

\* the value of the viewBox memo in a render: recomputed when one of its
\* dependencies ([params, rotation] in the first component, [params] in the second)
\* differs from the previous render's, the previous value otherwise
renderedViewBox(c, previous, paramsChanged, rotationChanged, p, angle) ==
  IF c = "ShelfVisualizerStatic"
    THEN (IF paramsChanged \/ rotationChanged THEN rotatingViewBox(p, angle) ELSE previous)
    ELSE (IF paramsChanged THEN fixedViewBox(p) ELSE previous)

InitFrame ==
  /\ engine = "flat"
  /\ component \in FrameComponents
  /\ params = frameInitialParams(component)
  /\ rotation = frameInitialRotation(component)
  /\ velocity = (IF component = "ShelfVisualizerStatic" THEN NFrac(-8, 10000)
                 ELSE initialVelocity(component))
  /\ targetSpeed = (IF component = "ShelfVisualizerStatic" THEN NFrac(-8, 10000)
                    ELSE initialTargetSpeed(component))
  /\ pc = "render"
  /\ call = NoCall
  /\ ret = NoRet
  /\ generatorIdle
  /\ userParams = initialUserParams
  /\ isDragging = FALSE
  /\ draggingHandle = "null"
  /\ lastMouseX = 0
  /\ lastMouseY = 0
  /\ lastTime = 0
  /\ dragVelocity = Nm(0)
  /\ steps = 0
  /\ animatingSlider = "null"

\* the first render
FirstRender ==
  /\ pc = "render"
  /\ ret' = renderedViewBox(component, ret, TRUE, TRUE, params, rotation)
  /\ pc' = "shown"
  /\ UNCHANGED <<viewVars, engine, params, i, j, bis, frontEdge, backEdge, shelves, columns,
                 curves, kRange, call>>

\* animate and the render it causes
FrameTick ==
  /\ pc = "shown"
  /\ steps < FrameSteps
  /\ ~isDragging
  /\ IF component = "ShelfVisualizerStatic"
       THEN /\ rotation' = jsMod(NAdd(NSub(rotation, NFrac(8, 10000)), TwoPi), TwoPi)
            /\ velocity' = velocity
       ELSE /\ rotation' = jsMod(NAdd(rotation, velocity), TwoPi)
            /\ velocity' = nextVelocity(velocity, targetSpeed)
  /\ \E angle \in {rotation'} :
       ret' = renderedViewBox(component, ret, FALSE, ~NEq(angle, rotation), params, angle)
  /\ steps' = steps + 1
  /\ UNCHANGED <<engine, animatingSlider, params, pc, i, j, bis, frontEdge, backEdge, shelves, columns, curves,
                 kRange, call, component, userParams, targetSpeed, isDragging, draggingHandle,
                 lastMouseX, lastMouseY, lastTime, dragVelocity>>

\* handleMouseDown of the second component
FrameMouseDown ==
  /\ pc = "shown"
  /\ steps < FrameSteps
  /\ component = "ShelfVisualizer"
  /\ \E clientX \in FramePointerXs :
       /\ isDragging' = TRUE
       /\ lastMouseX' = clientX
       /\ dragVelocity' = Nm(0)
  /\ steps' = steps + 1
  /\ UNCHANGED <<engine, animatingSlider, params, pc, i, j, bis, frontEdge, backEdge, shelves, columns, curves,
                 kRange, call, ret, component, userParams, rotation, velocity, targetSpeed,
                 draggingHandle, lastMouseY, lastTime>>

\* handleMouseMove of the second component during a drag, and the render it causes
FrameMouseMove ==
  /\ pc = "shown"
  /\ steps < FrameSteps
  /\ component = "ShelfVisualizer"
  /\ isDragging
  /\ \E clientX \in FramePointerXs : RotationDragMove(clientX, 50)
  /\ \E angle \in {rotation'} :
       ret' = renderedViewBox(component, ret, FALSE, ~NEq(angle, rotation), params, angle)
  /\ steps' = steps + 1
  /\ UNCHANGED <<engine, animatingSlider, pc, i, j, bis, frontEdge, backEdge, shelves, columns, curves, kRange,
                 call, component, velocity, targetSpeed, isDragging, draggingHandle>>

\* handleMouseUp of the second component
FrameMouseUp ==
  /\ pc = "shown"
  /\ steps < FrameSteps
  /\ component = "ShelfVisualizer"
  /\ isDragging
  /\ velocity' = releaseMomentum(dragVelocity)
  /\ isDragging' = FALSE
  /\ steps' = steps + 1
  /\ UNCHANGED <<engine, animatingSlider, params, pc, i, j, bis, frontEdge, backEdge, shelves, columns, curves,
                 kRange, call, ret, component, userParams, rotation, targetSpeed,
                 draggingHandle, lastMouseX, lastMouseY, lastTime, dragVelocity>>

\* updateParam('depth') from the Depth slider, and the render it causes
DepthSliderChange ==
  /\ pc = "shown"
  /\ steps < FrameSteps
  /\ \E depth \in FrameDepths :
       /\ params' = [params EXCEPT !.depth = Nm(depth)]
       /\ \E p \in {params'} :
            ret' = renderedViewBox(component, ret, TRUE, FALSE, p, rotation)
  /\ steps' = steps + 1
  /\ UNCHANGED <<engine, animatingSlider, pc, i, j, bis, frontEdge, backEdge, shelves, columns, curves, kRange,
                 call, component, userParams, rotation, velocity, targetSpeed, isDragging,
                 draggingHandle, lastMouseX, lastMouseY, lastTime, dragVelocity>>

NextFrame ==
  \/ FirstRender
  \/ FrameTick
  \/ FrameMouseDown
  \/ FrameMouseMove
  \/ FrameMouseUp
  \/ DepthSliderChange

SpecFrame == InitFrame /\ [][NextFrame]_vars

\* C23: the displayed viewBox depends on the parameters only: a step that leaves
\* the parameters alone (an animation tick, a rotation-drag move) leaves the viewBox
\* as it was
ViewBoxFollowsParamsOnly ==
  [][(pc = "shown" /\ params' = params) => ret' = ret]_vars


(***************************************************************************)
(* CornerShelfVisualizer/geometry.ts: the positions of the control curves. *)
(***************************************************************************)
\* the positions the module's header comment gives, in the order of curveData:
\* curve4, curve3, curve2, curve1, curve0
documentedBasePositions(p) ==
  << [x |-> p.width, y |-> Nm(0)],
     [x |-> NSub(p.width, p.depth), y |-> p.depth],
     [x |-> p.depth, y |-> p.depth],
     [x |-> p.depth, y |-> NSub(p.length, p.depth)],
     [x |-> Nm(0), y |-> p.length] >>

\* the path parameters of curve4 .. curve0
controlT == <<Nm(0), NFrac(1, 6), NFrac(1, 2), NFrac(5, 6), Nm(1)>>

\* C24: the five control curves stand where the module's header comment puts them:
\* the foot of each curve of the `curves` output (z = 0, where the sine is 0), the
\* entry of getCurveBasePositions and the base spine of getCornerFrontSurface at the
\* curve's path parameter are all the documented position
CurvesAtDocumentedPositions ==
  (engine = "corner" /\ pc # "curves") =>
    \A c \in 1..5 :
      LET doc == documentedBasePositions(params)[c]
          own == getCurveBasePositions(params)[c]
      IN  /\ NEq(curves[c][1].x, doc.x) /\ NEq(curves[c][1].y, doc.y)
          /\ NEq(own.x, doc.x) /\ NEq(own.y, doc.y)
          /\ NEq(cornerBaseX(controlT[c], params), doc.x)
          /\ NEq(cornerBaseY(controlT[c], params), doc.y)


(***************************************************************************)
(* CornerShelfVisualizer/geometry.ts: the columns' binary search over the  *)
(* heights of a column.                                                    *)
(***************************************************************************)
\* x - y of the base spine at path parameter t
spineDiff(t) == NSub(cornerBaseX(t, params), cornerBaseY(t, params))

\* the binary search of a corner column has found the point of height step j
searchFinished ==
  engine = "corner" /\ pc = "columns" /\ i < params.columnCount /\ j <= ColumnSegments
    /\ bis.iter = BisectIterations

EntryComponents == {"ShelfVisualizer", "CornerShelfVisualizer"}

\* milliseconds from one animation frame to the next
FrameIntervals == {300, 600, 1000}

easeOutCubic(t) ==
  CHOOSE r \in { NSub(Nm(1), NMul(u, NMul(u, u))) : u \in {NSub(Nm(1), t)} } : TRUE

animationProgressUnbounded(elapsed, duration) == NDivInt(Nm(elapsed), duration)

\* progress of animateValue: Math.min(elapsed / duration, 1)
animationProgress(elapsed, duration) == NMin(NDivInt(Nm(elapsed), duration), Nm(1))

\* value of animateValue in a frame
animatedValue(from, to, elapsed, duration) ==
  CHOOSE r \in
    { NAdd(from, NMul(NSub(to, from), easedProgress)) :
        easedProgress \in {easeOutCubic(animationProgress(elapsed, duration))} } : TRUE

\* the animateValue calls of the first phase: key, from, to
dimensionAnimations(c) ==
  IF c = "ShelfVisualizer"
    THEN {<<"width", 30, 80>>, <<"height", 20, 50>>}
    ELSE {<<"width", 30, 50>>, <<"length", 30, 50>>, <<"height", 20, 50>>, <<"depth", 8, 15>>}

\* params after one frame of the first phase's animations
dimensionsAt(p, c, elapsed) ==
  [k \in DOMAIN p |->
     IF \E a \in dimensionAnimations(c) : a[1] = k
       THEN CHOOSE v \in { animatedValue(Nm(a[2]), Nm(a[3]), elapsed, 1800) :
                            a \in {b \in dimensionAnimations(c) : b[1] = k} } : TRUE
       ELSE p[k]]

InitEntry ==
  /\ engine \in {"flat", "corner"}
  /\ component = (IF engine = "flat" THEN "ShelfVisualizer" ELSE "CornerShelfVisualizer")
  /\ params = initialParams(component)
  /\ pc = "delay"
  /\ call = [fn |-> "runAnimation", elapsed |-> 0, current |-> 0]
  /\ ret = NoRet
  /\ generatorIdle
  /\ userParams = initialUserParams
  /\ rotation = initialRotation(component)
  /\ velocity = initialVelocity(component)
  /\ targetSpeed = initialTargetSpeed(component)
  /\ isDragging = FALSE
  /\ draggingHandle = "null"
  /\ lastMouseX = 0
  /\ lastMouseY = 0
  /\ lastTime = 0
  /\ dragVelocity = Nm(0)
  /\ steps = 0
  /\ animatingSlider = "null"

entryUnchanged ==
  UNCHANGED <<engine, i, j, bis, frontEdge, backEdge, shelves, columns, curves, kRange, ret,
              component, userParams, rotation, velocity, targetSpeed, isDragging,
              draggingHandle, lastMouseX, lastMouseY, lastTime, dragVelocity, steps>>

\* the initial delay of 700 ms is over: setAnimatingSlider('width'), and the
\* animations of the dimensions take their start time
InitialDelayOver ==
  /\ pc = "delay"
  /\ animatingSlider' = "width"
  /\ pc' = "width"
  /\ call' = [call EXCEPT !.elapsed = 0]
  /\ params' = params
  /\ entryUnchanged

\* one animation frame of the dimensions' animateValue calls; with progress 1 they
\* resolve, and runAnimation goes on to setAnimatingSlider('columnCount')
DimensionsFrame ==
  /\ pc = "width"
  /\ \E dt \in FrameIntervals :
       \E elapsed \in {call.elapsed + dt} :
         /\ call' = [call EXCEPT !.elapsed = elapsed]
         /\ params' = dimensionsAt(params, component, elapsed)
         /\ IF NLt(animationProgress(elapsed, 1800), Nm(1))
              THEN pc' = pc /\ animatingSlider' = animatingSlider
              ELSE pc' = "columnDelay" /\ animatingSlider' = "columnCount"
  /\ entryUnchanged

\* the delay of 300 ms of an animateSteps call is over: current = from
StepsDelayOver ==
  /\ pc \in {"columnDelay", "shelfDelay"}
  /\ call' = [call EXCEPT !.current = 2]
  /\ pc' = (IF pc = "columnDelay" THEN "columnCount" ELSE "shelfCount")
  /\ UNCHANGED <<params, animatingSlider>>
  /\ entryUnchanged

\* step of animateSteps: current += 1; at 5 the call resolves and runAnimation goes
\* on to the next setAnimatingSlider
CountStep ==
  /\ pc \in {"columnCount", "shelfCount"}
  /\ \E current \in {call.current + 1} :
       /\ call' = [call EXCEPT !.current = current]
       /\ params' = [params EXCEPT ![pc] = current]
       /\ IF current < 5
            THEN pc' = pc /\ animatingSlider' = animatingSlider
            ELSE IF pc = "columnCount"
              THEN pc' = "shelfDelay" /\ animatingSlider' = "shelfCount"
              ELSE pc' = "amplitudeDelay" /\ animatingSlider' = "amplitude"
  /\ entryUnchanged

\* the delay of 300 ms of animateValue('amplitude', ...) is over
AmplitudeDelayOver ==
  /\ pc = "amplitudeDelay"
  /\ call' = [call EXCEPT !.elapsed = 0]
  /\ pc' = "amplitude"
  /\ UNCHANGED <<params, animatingSlider>>
  /\ entryUnchanged

\* one animation frame of animateValue('amplitude', 0, 2.5, 1500, 300); with
\* progress 1 it resolves and runAnimation ends with setAnimatingSlider(null)
AmplitudeFrame ==
  /\ pc = "amplitude"
  /\ \E dt \in FrameIntervals :
       \E elapsed \in {call.elapsed + dt} :
         /\ call' = [call EXCEPT !.elapsed = elapsed]
         /\ params' = [params EXCEPT !.amplitude = animatedValue(Nm(0), NFrac(5, 2), elapsed, 1500)]
         /\ IF NLt(animationProgress(elapsed, 1500), Nm(1))
              THEN pc' = pc /\ animatingSlider' = animatingSlider
              ELSE pc' = "done" /\ animatingSlider' = "null"
  /\ entryUnchanged

NextEntry ==
  \/ InitialDelayOver
  \/ DimensionsFrame
  \/ StepsDelayOver
  \/ CountStep
  \/ AmplitudeDelayOver
  \/ AmplitudeFrame

\* timers fire and animation frames keep coming
SpecEntry == InitEntry /\ [][NextEntry]_vars /\ WF_vars(NextEntry)

\* the values the first phase animates to
dimensionsAtTargets ==
  \A a \in dimensionAnimations(component) : NEq(params[a[1]], Nm(a[3]))

\* the position of a slider name in the animation's order
phaseRank(s) ==
  IF s = "width" THEN 1 ELSE IF s = "columnCount" THEN 2 ELSE IF s = "shelfCount" THEN 3
  ELSE IF s = "amplitude" THEN 4 ELSE IF pc = "delay" THEN 0 ELSE 5

\* C26: animatingSlider goes null, 'width', 'columnCount', 'shelfCount',
\* 'amplitude', null, one step at a time; while a phase runs the later phases'
\* values are still the initial ones and the earlier phases' values are at their
\* targets; columnCount and shelfCount change only in their own phase and by +1;
\* and the animation ends with animatingSlider null and every value at its target
EntryAnimationInOrder ==
  /\ [](LET r == phaseRank(animatingSlider)
        IN  /\ r >= 2 => dimensionsAtTargets
            /\ params.columnCount = (IF r >= 3 THEN 5 ELSE IF r = 2 THEN params.columnCount ELSE 2)
            /\ params.shelfCount = (IF r >= 4 THEN 5 ELSE IF r = 3 THEN params.shelfCount ELSE 2)
            /\ r <= 3 => NEq(params.amplitude, Nm(0))
            /\ r = 5 => NEq(params.amplitude, NFrac(5, 2))
            /\ r = 0 => params = initialParams(component))
  /\ [][/\ animatingSlider' # animatingSlider =>
             phaseRank(animatingSlider)' = phaseRank(animatingSlider) + 1
        /\ params'.columnCount # params.columnCount =>
             /\ animatingSlider = "columnCount"
             /\ params'.columnCount = params.columnCount + 1
        /\ params'.shelfCount # params.shelfCount =>
             /\ animatingSlider = "shelfCount"
             /\ params'.shelfCount = params.shelfCount + 1]_vars
  /\ <>[](animatingSlider = "null" /\ dimensionsAtTargets /\ params.columnCount = 5
          /\ params.shelfCount = 5 /\ NEq(params.amplitude, NFrac(5, 2)))

\* the animation has ended after a last frame later than the animation's duration
EntryAnimationInOrderWitness ==
  /\ pc = "done"
  /\ component = "ShelfVisualizer"
  /\ call.elapsed > 1500
  /\ NEq(params.width, Nm(80))
  /\ NEq(params.height, Nm(50))

=============================================================================
